---- MODULE Spec2Model ----
(***************************************************************************)
(* A model of the PDF merger of src/src/python/pdf_merger.py: the File     *)
(* Selector (_get_pdf_files), the Title Resolver (_create_bookmark_title), *)
(* the Hierarchy Builder (_build_hierarchical_toc) and the Merge Engine    *)
(* (merge_pdfs_stream).                                                    *)
(*                                                                         *)
(* A Python str is modelled as a sequence of one-character strings, so     *)
(* that split, replace, isdigit, int, zfill, capitalize and string         *)
(* comparison are computed character by character as Python computes them. *)
(***************************************************************************)
EXTENDS Integers, Sequences, FiniteSets, TLC

(***************************************************************************)
(* Bounds of the model.                                                    *)
(***************************************************************************)
MaxFiles == 2       \* directory entries of a merge target
MaxPages == 2       \* pages of one fragment
MaxSections == 2    \* sections of a SectionStructure
MaxRefs == 2        \* page references of one section
MaxListing == 2     \* directory entries handed to the File Selector alone
MaxMtime == 1       \* modification times of the entries
MaxItems == 2       \* entries of the base PDF directory before a run
MaxRuns == 2        \* calls of run() on one PDFMerger
MaxRunFragments == 2  \* fragments one run() merges
MaxFragmentPages == 3 \* pages of a fragment a run() merges

\* numbers of config_manager.py and of the configurations tried
DefaultConcurrency == 5
MinConcurrency == 1
MaxConcurrency == 20
UserConcurrency == 3
TooManyWorkers == 50
WrongTypeNumber == 7

(***************************************************************************)
(* Characters and Python's str operations.                                 *)
(***************************************************************************)
\* The characters of the model in code point order.
Chars ==
    <<" ", "-", ".", "0", "1", "2", "3", "4", "5", "6", "7", "8", "9",
      "A", "B", "C", "D", "E", "F", "G", "H", "I", "J", "K", "L", "M",
      "N", "O", "P", "Q", "R", "S", "T", "U", "V", "W", "X", "Y", "Z", "_",
      "a", "b", "c", "d", "e", "f", "g", "h", "i", "j", "k", "l", "m",
      "n", "o", "p", "q", "r", "s", "t", "u", "v", "w", "x", "y", "z">>

Ord(c) == CHOOSE k \in 1..Len(Chars) : Chars[k] = c

DigitChars == <<"0", "1", "2", "3", "4", "5", "6", "7", "8", "9">>
HexChars == DigitChars \o <<"a", "b", "c", "d", "e", "f">>
UpperChars ==
    <<"A", "B", "C", "D", "E", "F", "G", "H", "I", "J", "K", "L", "M",
      "N", "O", "P", "Q", "R", "S", "T", "U", "V", "W", "X", "Y", "Z">>
LowerChars ==
    <<"a", "b", "c", "d", "e", "f", "g", "h", "i", "j", "k", "l", "m",
      "n", "o", "p", "q", "r", "s", "t", "u", "v", "w", "x", "y", "z">>

InSeq(c, s) == \E k \in 1..Len(s) : s[k] = c
IndexIn(c, s) == CHOOSE k \in 1..Len(s) : s[k] = c

\* str.lower() and str.upper() of one character
LowerChar(c) == IF InSeq(c, UpperChars) THEN LowerChars[IndexIn(c, UpperChars)] ELSE c
UpperChar(c) == IF InSeq(c, LowerChars) THEN UpperChars[IndexIn(c, LowerChars)] ELSE c

\* s[from:] (1-based from)
DropTo(s, from) == SubSeq(s, from, Len(s))

\* a < b for two str values
RECURSIVE StrLess(_, _)
StrLess(a, b) ==
    IF b = <<>> THEN FALSE
    ELSE IF a = <<>> THEN TRUE
    ELSE IF a[1] # b[1] THEN Ord(a[1]) < Ord(b[1])
    ELSE StrLess(Tail(a), Tail(b))

\* s.startswith(p), s.endswith(p)
startswith(s, p) == Len(p) <= Len(s) /\ SubSeq(s, 1, Len(p)) = p
endswith(s, p) == Len(p) <= Len(s) /\ SubSeq(s, Len(s) - Len(p) + 1, Len(s)) = p

\* s.find(sub) + 1: the first position of sub in s, 0 when there is none
Find(s, sub) ==
    LET hits == {k \in 1..(Len(s) - Len(sub) + 1) : SubSeq(s, k, k + Len(sub) - 1) = sub}
    IN IF hits = {} THEN 0 ELSE CHOOSE k \in hits : \A j \in hits : k <= j

\* sub in s
Contains(s, sub) == Find(s, sub) # 0

\* s.replace(old, new), old not empty
RECURSIVE replace(_, _, _)
replace(s, old, new) ==
    LET k == Find(s, old)
    IN IF k = 0 THEN s
       ELSE SubSeq(s, 1, k - 1) \o new \o replace(DropTo(s, k + Len(old)), old, new)

\* s.split(sep, 1) for a one-character sep: one part, or the parts around the first sep
split1(s, sep) ==
    LET k == Find(s, <<sep>>)
    IN IF k = 0 THEN <<s>> ELSE <<SubSeq(s, 1, k - 1), DropTo(s, k + 1)>>

\* s.split(sep)[0]
split_first(s, sep) == split1(s, sep)[1]

\* s.isdigit()
isdigit(s) == Len(s) > 0 /\ \A k \in 1..Len(s) : InSeq(s[k], DigitChars)

\* the value of a string of decimal digits
RECURSIVE DigitsValue(_)
DigitsValue(s) ==
    IF s = <<>> THEN 0
    ELSE 10 * DigitsValue(SubSeq(s, 1, Len(s) - 1)) + (IndexIn(s[Len(s)], DigitChars) - 1)

\* s.lstrip('0')
RECURSIVE lstrip0(_)
lstrip0(s) == IF s # <<>> /\ s[1] = "0" THEN lstrip0(Tail(s)) ELSE s

\* int(s) accepts decimal digits with single underscores between digits
\* (PEP 515); everything else over Chars raises ValueError.
int_ok(s) ==
    /\ Len(s) > 0
    /\ \A k \in 1..Len(s) : InSeq(s[k], DigitChars) \/ s[k] = "_"
    /\ s[1] # "_" /\ s[Len(s)] # "_"
    /\ \A k \in 1..(Len(s) - 1) : ~(s[k] = "_" /\ s[k + 1] = "_")

int_value(s) == DigitsValue(SelectSeq(s, LAMBDA c : c # "_"))

\* str(n) for n >= 0
RECURSIVE str(_)
str(n) == IF n < 10 THEN <<DigitChars[n + 1]>> ELSE str(n \div 10) \o <<DigitChars[(n % 10) + 1]>>

\* s.zfill(width) for a string without sign
RECURSIVE zfill(_, _)
zfill(s, width) == IF Len(s) >= width THEN s ELSE zfill(<<"0">> \o s, width)

\* os.path.splitext(p)[0] for a name without directory separators: the name up
\* to its last dot, the whole name when the dot is missing or only leading dots
\* precede it
splitext_root(p) ==
    LET dots == {k \in 1..Len(p) : p[k] = "."}
        last == CHOOSE k \in dots : \A j \in dots : j <= k
    IN IF dots = {} THEN p
       ELSE IF \A k \in 1..last : p[k] = "." THEN p
       ELSE SubSeq(p, 1, last - 1)

\* capitalize that leaves the letters after the first as they are
capitalize_first_only(w) ==
    IF w = <<>> THEN w ELSE <<UpperChar(w[1])>> \o Tail(w)

\* word.capitalize()
capitalize(w) ==
    IF w = <<>> THEN w
    ELSE <<UpperChar(w[1])>> \o [k \in 1..(Len(w) - 1) |-> LowerChar(w[k + 1])]

\* s.split(): the words between runs of blanks
RECURSIVE split_words(_)
split_words(s) ==
    IF s = <<>> THEN <<>>
    ELSE IF s[1] = " " THEN split_words(Tail(s))
    ELSE LET k == Find(s, <<" ">>)
         IN IF k = 0 THEN <<s>>
            ELSE <<SubSeq(s, 1, k - 1)>> \o split_words(DropTo(s, k))

\* ' '.join(words)
RECURSIVE join_blank(_)
join_blank(ws) ==
    IF ws = <<>> THEN <<>>
    ELSE IF Len(ws) = 1 THEN ws[1]
    ELSE ws[1] \o <<" ">> \o join_blank(Tail(ws))

PdfExt == <<".", "p", "d", "f">>
PuppeteerPdf == <<"_", "p", "u", "p", "p", "e", "t", "e", "e", "r", ".", "p", "d", "f">>
Dash == "-"


(***************************************************************************)
(* File Selector: _get_pdf_files and its get_sort_key.                     *)
(* A directory listing maps each entry name to [isFile, mtime]; mtime -1   *)
(* stands for an entry whose os.path.getmtime raises.                      *)
(***************************************************************************)
\* the name with the engine suffix removed (lines 212-214)
name_for_sorting(filename) ==
    IF Contains(filename, PuppeteerPdf) THEN replace(filename, PuppeteerPdf, PdfExt)
    ELSE filename

is_hash_prefix(prefix) ==
    Len(prefix) = 8 /\ \A k \in 1..Len(prefix) : InSeq(LowerChar(prefix[k]), HexChars)

\* get_sort_key(filename): the tuple (bucket, secondary key, filename)
get_sort_key(filename, entry) ==
    LET prefix == split1(name_for_sorting(filename), Dash)[1]
        stripped == IF lstrip0(prefix) = <<>> THEN <<"0">> ELSE lstrip0(prefix)
    IN IF isdigit(prefix) THEN <<0, DigitsValue(prefix), filename>>
       ELSE IF int_ok(stripped) /\ startswith(prefix, <<"0">>) /\ Len(prefix) > 1
            THEN <<0, int_value(stripped), filename>>
       ELSE IF is_hash_prefix(prefix)
            THEN <<1, IF entry.mtime < 0 THEN 0 ELSE entry.mtime, filename>>
       ELSE <<2, 0, filename>>

\* a < b for two sort keys (Python's tuple comparison)
KeyLess(a, b) ==
    \/ a[1] < b[1]
    \/ a[1] = b[1] /\ a[2] < b[2]
    \/ a[1] = b[1] /\ a[2] = b[2] /\ StrLess(a[3], b[3])

\* files.sort(key=get_sort_key): the names of S by ascending key
RECURSIVE sort_by_key(_, _)
sort_by_key(S, lst) ==
    IF S = {} THEN <<>>
    ELSE LET m == CHOOSE f \in S : \A g \in S \ {f} :
                      KeyLess(get_sort_key(f, lst[f]), get_sort_key(g, lst[g]))
         IN <<m>> \o sort_by_key(S \ {m}, lst)

\* eligible_files without the regular-file test
eligible_files_any_kind(lst, filter) ==
    LET pdfs == {f \in DOMAIN lst : endswith(f, PdfExt)}
    IN IF filter = "puppeteer" THEN {f \in pdfs : Contains(f, PuppeteerPdf)}
       ELSE IF filter = "single" THEN {f \in pdfs : ~Contains(f, PuppeteerPdf)}
       ELSE pdfs

\* the entries that pass the extension, regular-file and engine filters
eligible_files(lst, filter) ==
    LET pdfs == {f \in DOMAIN lst : endswith(f, PdfExt) /\ lst[f].isFile}
    IN IF filter = "puppeteer" THEN {f \in pdfs : Contains(f, PuppeteerPdf)}
       ELSE IF filter = "single" THEN {f \in pdfs : ~Contains(f, PuppeteerPdf)}
       ELSE pdfs

\* _get_pdf_files(directory_path, engine_filter)
get_pdf_files(exists, lst, filter) ==
    IF ~exists THEN <<>> ELSE sort_by_key(eligible_files(lst, filter), lst)

(***************************************************************************)
(* Title Resolver: _create_bookmark_title.  A TitleIndex is a function     *)
(* from key strings to title strings (a Python dict).                      *)
(***************************************************************************)
\* possible_keys without the zero-padded and unpadded forms
possible_keys_raw(prefix) == <<prefix>>

\* the candidate keys with the 2-digit form tried before the 3-digit form
possible_keys_two_digits_first(prefix) ==
    IF isdigit(prefix)
    THEN <<prefix, str(DigitsValue(prefix)), zfill(str(DigitsValue(prefix)), 2),
           zfill(str(DigitsValue(prefix)), 3)>>
    ELSE <<prefix>>

\* the candidate keys of a prefix, in the order they are tried (lines 325-334)
possible_keys(prefix) ==
    IF isdigit(prefix)
    THEN <<prefix, str(DigitsValue(prefix)), zfill(str(DigitsValue(prefix)), 3),
           zfill(str(DigitsValue(prefix)), 2)>>
    ELSE <<prefix>>

\* the title derived from the file name (lines 344-348)
fallback_title(name_part) ==
    LET cleaned_name == splitext_root(name_part)
        blanked == [k \in 1..Len(cleaned_name) |->
                      IF cleaned_name[k] = "-" \/ cleaned_name[k] = "_" THEN " "
                      ELSE cleaned_name[k]]
        words == split_words(blanked)
    IN join_blank([k \in 1..Len(words) |-> capitalize(words[k])])

\* _create_bookmark_title that keeps the whole name when the prefix is no number
create_bookmark_title_whole_name(filename, titles) ==
    LET cleaned_filename == name_for_sorting(filename)
        parts == split1(cleaned_filename, Dash)
    IN IF Len(parts) < 2 \/ ~isdigit(parts[1]) THEN splitext_root(cleaned_filename)
       ELSE LET keys == possible_keys(parts[1])
                hits == {k \in 1..Len(keys) : keys[k] \in DOMAIN titles}
            IN IF hits # {}
               THEN titles[keys[CHOOSE k \in hits : \A j \in hits : k <= j]]
               ELSE fallback_title(parts[2])

\* _create_bookmark_title(filename, article_titles)
create_bookmark_title(filename, titles) ==
    LET cleaned_filename == name_for_sorting(filename)
        parts == split1(cleaned_filename, Dash)
    IN IF Len(parts) < 2 THEN splitext_root(cleaned_filename)
       ELSE LET keys == possible_keys(parts[1])
                hits == {k \in 1..Len(keys) : keys[k] \in DOMAIN titles}
            IN IF hits # {}
               THEN titles[keys[CHOOSE k \in hits : \A j \in hits : k <= j]]
               ELSE fallback_title(parts[2])


(***************************************************************************)
(* Hierarchy Builder: _build_hierarchical_toc.                             *)
(* A bookmark entry [level, title, page, link] is the list                 *)
(* [level, title, page, {"kind": 1, "page": link}] of the code.            *)
(* page_counts is the dict filename -> page count in insertion order, kept *)
(* as a sequence of [file, pages]; file_to_index is a function.            *)
(***************************************************************************)
\* Python's None where a str, a list or a document is expected: the empty
\* sequence (no file name, key or title of the model is empty)
None == <<>>
\* no SectionStructure was loaded (self.section_structure is None or {})
NoStructure == [present |-> FALSE, has_sections |-> FALSE, sections |-> <<>>]
\* nothing was written at output_path
NoFile == [written |-> FALSE, pages |-> 0, toc |-> <<>>]
TitlePage == <<"P", "a", "g", "e", " ">>

\* an entry whose target page is the 0-based page number
Entry_zero_based(level, title, start_page) ==
    [level |-> level, title |-> title, page |-> start_page, link |-> start_page]

Entry(level, title, start_page) ==
    [level |-> level, title |-> title, page |-> start_page + 1, link |-> start_page]

\* page_counts.get(filename, 0)
page_count_of(counts, filename) ==
    LET hits == {k \in 1..Len(counts) : counts[k].file = filename}
    IN IF hits = {} THEN 0 ELSE counts[CHOOSE k \in hits : TRUE].pages

\* file_page_map[files[n]]: the pages of the files listed before it (lines 385-388)
RECURSIVE file_page_map(_, _, _)
file_page_map(fs, counts, n) ==
    IF n <= 1 THEN 0
    ELSE file_page_map(fs, counts, n - 1) + page_count_of(counts, fs[n - 1])

\* index_to_file that keeps the first file of an index, not the last
index_to_file_first(fs, f2i, index) ==
    LET hits == {n \in 1..Len(fs) : fs[n] \in DOMAIN f2i /\ f2i[fs[n]] # <<>> /\ f2i[fs[n]] = index}
    IN IF hits = {} THEN 0 ELSE CHOOSE n \in hits : \A m \in hits : n <= m

\* index_to_file.get(index): the last listed file with that index, None when
\* there is none (lines 391-395: a later file overwrites an earlier one)
index_to_file(fs, f2i, index) ==
    LET hits == {n \in 1..Len(fs) : fs[n] \in DOMAIN f2i /\ f2i[fs[n]] # <<>> /\ f2i[fs[n]] = index}
    IN IF hits = {} THEN 0 ELSE CHOOSE n \in hits : \A m \in hits : m <= n

\* valid_pages of one section: its page references that resolve, in listed order
RECURSIVE valid_pages(_, _, _, _, _)
valid_pages(pages, fs, counts, f2i, titles) ==
    IF pages = <<>> THEN <<>>
    ELSE LET page_index == pages[1].index
             found == index_to_file(fs, f2i, page_index)
             rest == valid_pages(Tail(pages), fs, counts, f2i, titles)
         IN IF page_index = <<>> \/ found = 0 THEN rest
            ELSE <<[title |-> IF page_index \in DOMAIN titles THEN titles[page_index]
                               ELSE TitlePage \o page_index,
                    page |-> file_page_map(fs, counts, found),
                    index |-> page_index]>> \o rest

\* a section entry that targets the last resolved page, not the first
section_block_last(section_title, vp) ==
    <<Entry(1, section_title, vp[Len(vp)].page)>>
    \o [k \in 1..Len(vp) |-> Entry(2, vp[k].title, vp[k].page)]

\* the entries of a section with valid pages (lines 434-450)
section_block(section_title, vp) ==
    <<Entry(1, section_title, vp[1].page)>>
    \o [k \in 1..Len(vp) |-> Entry(2, vp[k].title, vp[k].page)]

\* the entries of the sections, section after section (lines 400-450)
RECURSIVE section_entries(_, _, _, _, _)
section_entries(sections, fs, counts, f2i, titles) ==
    IF sections = <<>> THEN <<>>
    ELSE LET vp == valid_pages(sections[1].pages, fs, counts, f2i, titles)
             rest == section_entries(Tail(sections), fs, counts, f2i, titles)
         IN IF vp = <<>> THEN rest
            ELSE section_block(sections[1].title, vp) \o rest

\* _build_hierarchical_toc(files, page_counts, file_to_index): None when there
\* is no structure or it has no 'sections', else the entry list (possibly
\* empty; line 621 treats both alike)
build_hierarchical_toc(structure, fs, counts, f2i, titles) ==
    IF ~structure.present \/ ~structure.has_sections THEN None
    ELSE section_entries(structure.sections, fs, counts, f2i, titles)


(***************************************************************************)
(* State.                                                                  *)
(***************************************************************************)
VARIABLES
    pc,                 \* position in the operation under way
    dir_exists,         \* os.path.exists(directory_path)
    listing,            \* the entries of the directory: name -> [isFile, mtime]
    engine_filter,      \* "none" (None), "puppeteer" or "single"
    article_titles,     \* self.article_titles
    section_structure,  \* self.section_structure: [present, has_sections, sections]
    bookmarks_enabled,  \* config pdf.bookmarks
    has_callback,       \* whether a progress_callback was passed
    files,              \* the list _get_pdf_files returned
    i,                  \* 1-based position of the loop in files
    merged_pages,       \* merged_pdf.page_count
    merged_open,        \* merged_pdf is open
    toc,                \* the local list toc
    page_counts,        \* the local dict page_counts, in insertion order
    file_to_index,      \* the local dict file_to_index
    current_file_pdf,   \* None or the file whose document the variable refers to
    page_count,         \* the local page_count of the document just opened
    open_docs,          \* the fragment documents that are open
    doc_toc,            \* the list given to merged_pdf.set_toc, empty when not called
    stats,              \* self.stats: files_processed, total_pages, errors
    progress_calls,     \* the calls progress_callback received
    out_dir,            \* the output directory was created by makedirs
    out_file,           \* what is at output_path: [written, pages, toc]
    pending,            \* "True" or "False": the return value awaiting the finally block
    result,             \* "None", or "True" or "False" as merge_pdfs_stream returned
    outcomes,           \* history: what happened to files[1..i-1]
    arg_filename,       \* argument of _create_bookmark_title (Title Resolver alone)
    ret_title,          \* its return value
    wpc,                \* position in run() and its merge_directory()
    pdf_dir_exists,     \* os.path.exists(self.pdf_dir)
    config_names,       \* configured names: [final, metadata, temp]
    tree,               \* the entries of pdf_dir: name -> [isDir, files]
    root_files,         \* the .pdf files that lie in pdf_dir itself
    items,              \* os.listdir(self.pdf_dir), in the order it was returned
    item_pos,           \* 1-based position of the loop in items
    merged_files,       \* the local list merged_files
    invocations,        \* history: the calls of merge_pdfs_stream
    run_result,         \* the dict run() returned
    cpc,                \* position in PDFMerger.__init__ or ConfigManager.load
    config_file,        \* the file at config_path: [kind, raw]
    meta_files,         \* articleTitles.json and sectionStructure.json in both places
    environ,            \* os.environ: variable -> value, unset ones left out
    ctor_log,           \* history: the files __init__ read, in order
    ctor_error,         \* "None" or the exception __init__ raised
    merger_config,      \* self.config of the PDFMerger
    cm_config,          \* self._config of the ConfigManager
    cm_validated,       \* self._validated
    cm_outcome,         \* what load() did: [raised, returned]
    run_merged,         \* history: page counts of the fragments the run() under way merged
    run_statistics,     \* the 'statistics' of the dict run() returned
    runs                \* number of calls of run() that returned

vars ==
    <<pc, dir_exists, listing, engine_filter, article_titles, section_structure,
      bookmarks_enabled, has_callback, files, i, merged_pages, merged_open, toc,
      page_counts, file_to_index, current_file_pdf, page_count, open_docs, doc_toc,
      stats, progress_calls, out_dir, out_file, pending, result, outcomes,
      arg_filename, ret_title, wpc, pdf_dir_exists, config_names, tree, root_files,
      items, item_pos, merged_files, invocations, run_result, cpc, config_file,
      meta_files, environ, ctor_log, ctor_error, merger_config, cm_config, cm_validated,
      cm_outcome, run_merged, run_statistics, runs>>

\* the record of the calls of run() on one PDFMerger
stat_vars == <<run_merged, run_statistics, runs>>

\* the state of PDFMerger.__init__ and of the ConfigManager
cfg_vars ==
    <<cpc, config_file, meta_files, environ, ctor_log, ctor_error, merger_config,
      cm_config, cm_validated, cm_outcome>>

\* the state of run() and merge_directory()
walk_vars ==
    <<wpc, pdf_dir_exists, config_names, tree, root_files, items, item_pos,
      merged_files, invocations, run_result>>

env_vars ==
    <<dir_exists, listing, engine_filter, article_titles, section_structure,
      bookmarks_enabled, has_callback, arg_filename, ret_title, walk_vars, cfg_vars,
      stat_vars>>

(***************************************************************************)
(* The inputs the model draws from.                                        *)
(***************************************************************************)
F_1_a == <<"1", "-", "a", ".", "p", "d", "f">>
F_01_b == <<"0", "1", "-", "b", ".", "p", "d", "f">>
F_001_x == <<"0", "0", "1", "-", "x", ".", "p", "d", "f">>
F_2_c == <<"2", "-", "c", ".", "p", "d", "f">>
F_10_c == <<"1", "0", "-", "c", ".", "p", "d", "f">>
F_hash == <<"0", "0", "0", "0", "0", "0", "0", "a", "-", "h", ".", "p", "d", "f">>
F_hash2 == <<"0", "0", "0", "0", "0", "0", "0", "b", "-", "g", ".", "p", "d", "f">>
F_8digits == <<"1", "2", "3", "4", "5", "6", "7", "8", "-", "d", ".", "p", "d", "f">>
F_01u2_x == <<"0", "1", "_", "2", "-", "x", ".", "p", "d", "f">>
F_zz_o == <<"z", "z", "-", "o", ".", "p", "d", "f">>
F_readme == <<"r", "e", "a", "d", "m", "e", ".", "p", "d", "f">>
F_3_pup == <<"3", "-", "d", "_", "p", "u", "p", "p", "e", "t", "e", "e", "r", ".", "p", "d", "f">>
F_txt == <<"n", ".", "t", "x", "t">>
F_99_my_page == <<"9", "9", "-", "m", "y", "-", "p", "a", "g", "e", ".", "p", "d", "f">>
F_1_anything == <<"1", "-", "a", "n", "y", "t", "h", "i", "n", "g", ".", "p", "d", "f">>
F_02_my_page == <<"0", "2", "-", "m", "y", "_", "P", "A", "G", "E", ".", "p", "d", "f">>
F_99_unknown == <<"9", "9", "-", "u", "n", "k", "n", "o", "w", "n", ".", "p", "d", "f">>
F_invalid_filename == <<"i", "n", "v", "a", "l", "i", "d", "-", "f", "i", "l", "e", "n", "a", "m", "e", ".", "p", "d", "f">>

T_Intro == <<"I", "n", "t", "r", "o">>
T_Alt == <<"A", "l", "t">>

\* the fragments of a merge target
MergeNames == {F_1_a, F_01_b, F_2_c, F_zz_o}
\* the entries of a directory given to the File Selector alone
SelectNames ==
    {F_1_a, F_01_b, F_2_c, F_10_c, F_hash, F_hash2, F_8digits, F_01u2_x, F_zz_o,
     F_readme, F_3_pup, F_txt}
\* the file names given to the Title Resolver alone
TitleNames ==
    {F_1_a, F_01_b, F_001_x, F_2_c, F_10_c, F_hash, F_zz_o, F_readme, F_3_pup,
     F_99_my_page, F_1_anything, F_02_my_page, F_99_unknown, F_invalid_filename}
\* the keys a TitleIndex may hold
TitleKeys == {<<"1">>, <<"0", "1">>, <<"0", "0", "1">>, <<"2">>}
Titles == {T_Intro, T_Alt}

SubsetsUpTo(S, n) == {X \in SUBSET S : Cardinality(X) <= n}

\* every dict from some of the keys to the titles
TitleIndexes == UNION {[D -> Titles] : D \in SUBSET TitleKeys}
\* the indexes a merge runs with
MergeTitleIndexes == {<<>>, (<<"0", "1">> :> T_Intro) @@ (<<"2">> :> T_Alt)}

RefKeys == {<<"1">>, <<"2">>}
SectionTitle(k) == <<"S", DigitChars[k + 1]>>
PageLists == UNION {[1..n -> {[index |-> key] : key \in RefKeys}] : n \in 0..MaxRefs}
SectionLists ==
    UNION {{[k \in 1..n |-> [title |-> SectionTitle(k), pages |-> pl[k]]] :
               pl \in [1..n -> PageLists]} : n \in 0..MaxSections}
Structures ==
    {NoStructure, [present |-> TRUE, has_sections |-> FALSE, sections |-> <<>>]}
    \cup {[present |-> TRUE, has_sections |-> TRUE, sections |-> sl] : sl \in SectionLists}

RegularFile == [isFile |-> TRUE, mtime |-> 0]


(***************************************************************************)
(* Merge Engine: merge_pdfs_stream(directory_path, output_path,            *)
(* progress_callback, engine_filter) on a PDFMerger just constructed.      *)
(***************************************************************************)
NoStats == [files_processed |-> 0, total_pages |-> 0, errors |-> <<>>]

\* the names config_manager.py and pdf_merger.py use when the file gives none
DefaultNames == [final |-> "finalPdf", metadata |-> "metadata", temp |-> ".temp"]
NoResult == [keys |-> {}, success |-> FALSE, merged_files |-> <<>>]

\* no configuration file is involved
NoConfigFile == [kind |-> "missing", raw |-> <<>>]
NoMetaFiles ==
    [titles_meta |-> "absent", titles_fallback |-> "absent",
     structure_meta |-> "absent", structure_fallback |-> "absent"]
NoOutcome == [raised |-> "None", returned |-> <<>>]

\* neither __init__ nor load() is under way
ConfigIdle ==
    /\ cpc = "idle"
    /\ config_file = NoConfigFile
    /\ meta_files = NoMetaFiles
    /\ environ = <<>>
    /\ ctor_log = <<>>
    /\ ctor_error = "None"
    /\ merger_config = <<>>
    /\ cm_config = <<>>
    /\ cm_validated = FALSE
    /\ cm_outcome = NoOutcome

\* run() is not under way
WalkIdle ==
    /\ wpc = "idle"
    /\ pdf_dir_exists = FALSE
    /\ config_names = DefaultNames
    /\ tree = <<>>
    /\ root_files = {}
    /\ items = <<>>
    /\ item_pos = 0
    /\ merged_files = <<>>
    /\ invocations = <<>>
    /\ run_result = NoResult

\* no run() was called
NoStatistics == [files_processed |-> 0, total_pages |-> 0]
StatsIdle ==
    /\ run_merged = <<>>
    /\ run_statistics = NoStatistics
    /\ runs = 0

\* the locals of a call that has not bound them yet
LocalsInit ==
    /\ files = <<>>
    /\ i = 0
    /\ merged_pages = 0
    /\ merged_open = FALSE
    /\ toc = <<>>
    /\ page_counts = <<>>
    /\ file_to_index = <<>>
    /\ current_file_pdf = None
    /\ page_count = 0
    /\ open_docs = {}
    /\ doc_toc = None
    /\ stats = NoStats
    /\ progress_calls = <<>>
    /\ out_dir = FALSE
    /\ out_file = NoFile
    /\ pending = "None"
    /\ result = "None"
    /\ outcomes = <<>>

Init ==
    /\ pc = "start"
    /\ \/ /\ dir_exists = TRUE
          /\ \E S \in SubsetsUpTo(MergeNames, MaxFiles) : listing = [f \in S |-> RegularFile]
       \/ /\ dir_exists = TRUE
          /\ listing = (F_txt :> RegularFile) @@ (F_readme :> [isFile |-> FALSE, mtime |-> 0])
       \/ /\ dir_exists = FALSE
          /\ listing = <<>>
    /\ engine_filter = "none"
    /\ article_titles \in MergeTitleIndexes
    /\ section_structure \in Structures
    /\ bookmarks_enabled \in BOOLEAN
    /\ has_callback \in BOOLEAN
    /\ arg_filename = None
    /\ ret_title = None
    /\ WalkIdle
    /\ ConfigIdle
    /\ LocalsInit
    /\ StatsIdle

\* self.stats['errors'].append(error_msg)
AddError(kind, file) ==
    [stats EXCEPT !.errors = Append(@, [kind |-> kind, file |-> file])]

\* current_file_pdf refers to a document that was closed already
StaleHandle == current_file_pdf # None /\ current_file_pdf \notin open_docs

\* what a step inside the loop leaves alone
loop_frame == <<env_vars, files, merged_open, doc_toc, out_dir, out_file, pending>>

\* lines 518-520: the file list, and the early return on an empty one
GetFiles ==
    /\ pc = "start"
    /\ files' = get_pdf_files(dir_exists, listing, engine_filter)
    /\ IF files' = <<>>
       THEN /\ pc' = "done"
            /\ result' = "False"
       ELSE /\ pc' = "makedirs"
            /\ result' = result
    /\ UNCHANGED <<env_vars, i, merged_pages, merged_open, toc, page_counts, file_to_index,
                   current_file_pdf, page_count, open_docs, doc_toc, stats, progress_calls,
                   out_dir, out_file, pending, outcomes>>

\* lines 527-534: the output directory and the empty merged document
MakeDirs ==
    /\ pc = "makedirs"
    /\ out_dir' = TRUE
    /\ merged_open' = TRUE
    /\ i' = 1
    /\ pc' = "loop"
    /\ UNCHANGED <<env_vars, files, merged_pages, toc, page_counts, file_to_index,
                   current_file_pdf, page_count, open_docs, doc_toc, stats, progress_calls,
                   out_file, pending, result, outcomes>>

\* os.makedirs raises: lines 643-648, the finally block and lines 660-663
MakeDirsFails ==
    /\ pc = "makedirs"
    /\ stats' = AddError("merge", None)
    /\ result' = "False"
    /\ pc' = "done"
    /\ UNCHANGED <<env_vars, files, i, merged_pages, merged_open, toc, page_counts,
                   file_to_index, current_file_pdf, page_count, open_docs, doc_toc,
                   progress_calls, out_dir, out_file, pending, outcomes>>

InLoop == pc = "loop" /\ i <= Len(files)

\* lines 544-546: the file is gone when it is to be opened
FileMissing ==
    /\ InLoop
    /\ i' = i + 1
    /\ outcomes' = Append(outcomes, "missing")
    /\ UNCHANGED <<loop_frame, pc, merged_pages, toc, page_counts, file_to_index,
                   current_file_pdf, page_count, open_docs, stats, progress_calls, result>>

\* line 549 raises; lines 603-614 with current_file_pdf None, or referring to
\* a closed document that tests false
OpenFails ==
    /\ InLoop
    /\ stats' = AddError("file", files[i])
    /\ i' = i + 1
    /\ outcomes' = Append(outcomes, "open_failed")
    /\ UNCHANGED <<loop_frame, pc, merged_pages, toc, page_counts, file_to_index,
                   current_file_pdf, page_count, open_docs, progress_calls, result>>

\* line 549 raises while current_file_pdf still refers to the closed document
\* of an earlier zero-page file, and the test of line 609 raises on the closed
\* document: the exception leaves the loop (lines 643-648), the finally block
\* tests the same document (line 652) and lines 660-663 return False
OpenFailsOnStaleHandle ==
    /\ InLoop
    /\ StaleHandle
    /\ stats' = [stats EXCEPT !.errors = @ \o <<[kind |-> "file", file |-> files[i]],
                                                 [kind |-> "merge", file |-> None]>>]
    /\ outcomes' = Append(outcomes, "open_failed")
    /\ \E closed \in BOOLEAN : merged_open' = ~closed
    /\ result' = "False"
    /\ pc' = "done"
    /\ UNCHANGED <<env_vars, files, i, merged_pages, toc, page_counts, file_to_index,
                   current_file_pdf, page_count, open_docs, doc_toc, progress_calls,
                   out_dir, out_file, pending>>

\* lines 549-550: the document is opened and its page count read
OpenDoc ==
    /\ InLoop
    /\ current_file_pdf' = files[i]
    /\ open_docs' = open_docs \cup {files[i]}
    /\ page_count' \in 0..MaxPages
    /\ pc' = "opened"
    /\ UNCHANGED <<loop_frame, i, merged_pages, toc, page_counts, file_to_index, stats,
                   progress_calls, result, outcomes>>

\* ZeroPages without the close of line 554
ZeroPages_left_open ==
    /\ pc = "opened"
    /\ page_count = 0
    /\ i' = i + 1
    /\ outcomes' = Append(outcomes, "zero_pages")
    /\ pc' = "loop"
    /\ UNCHANGED <<loop_frame, merged_pages, toc, page_counts, file_to_index,
                   current_file_pdf, page_count, open_docs, stats, progress_calls, result>>

\* lines 552-555: a document without pages is closed and skipped; the variable
\* keeps referring to it
ZeroPages ==
    /\ pc = "opened"
    /\ page_count = 0
    /\ open_docs' = open_docs \ {current_file_pdf}
    /\ i' = i + 1
    /\ outcomes' = Append(outcomes, "zero_pages")
    /\ pc' = "loop"
    /\ UNCHANGED <<loop_frame, merged_pages, toc, page_counts, file_to_index,
                   current_file_pdf, page_count, stats, progress_calls, result>>

\* InsertFails with the pages appended before the exception
InsertFails_pages_kept ==
    /\ pc = "opened"
    /\ page_count > 0
    /\ merged_pages' = merged_pages + page_count
    /\ stats' = AddError("file", files[i])
    /\ open_docs' = open_docs \ {current_file_pdf}
    /\ current_file_pdf' = None
    /\ i' = i + 1
    /\ outcomes' = Append(outcomes, "insert_failed")
    /\ pc' = "loop"
    /\ UNCHANGED <<loop_frame, toc, page_counts, file_to_index, page_count,
                   progress_calls, result>>

\* line 561 raises (no page is appended); lines 603-614 close the document
InsertFails ==
    /\ pc = "opened"
    /\ page_count > 0
    /\ stats' = AddError("file", files[i])
    /\ open_docs' = open_docs \ {current_file_pdf}
    /\ current_file_pdf' = None
    /\ i' = i + 1
    /\ outcomes' = Append(outcomes, "insert_failed")
    /\ pc' = "loop"
    /\ UNCHANGED <<loop_frame, merged_pages, toc, page_counts, file_to_index, page_count,
                   progress_calls, result>>

\* lines 566-575: the index of a merged file, when its prefix is a number
index_of_file(filename) ==
    LET cleaned_filename == name_for_sorting(filename)
        prefix == IF Contains(cleaned_filename, <<Dash>>) THEN split_first(cleaned_filename, Dash)
                  ELSE <<>>
    IN IF isdigit(prefix) THEN str(DigitsValue(prefix)) ELSE None

\* file_to_index after lines 566-575
record_index(f2i, filename) ==
    IF index_of_file(filename) = None THEN f2i
    ELSE (filename :> index_of_file(filename)) @@ f2i

\* MergeEffects that saves the merged document after every fragment
MergeEffects_saves_each ==
    /\ pc = "opened"
    /\ page_count > 0
    /\ merged_pages' = merged_pages + page_count
    /\ page_counts' = Append(page_counts, [file |-> files[i], pages |-> page_count])
    /\ file_to_index' = record_index(file_to_index, files[i])
    /\ toc' = Append(toc, Entry(1, create_bookmark_title(files[i], article_titles), merged_pages))
    /\ open_docs' = open_docs \ {current_file_pdf}
    /\ current_file_pdf' = None
    /\ i' = i + 1
    /\ pc' = "loop"
    /\ out_file' = [written |-> TRUE, pages |-> merged_pages', toc |-> doc_toc]
    /\ UNCHANGED <<env_vars, files, merged_open, doc_toc, out_dir, pending, page_count, result>>

\* lines 557-592: the pages are appended, the flat bookmark is made, the
\* document is closed and the statistics updated
MergeEffects ==
    /\ pc = "opened"
    /\ page_count > 0
    /\ merged_pages' = merged_pages + page_count
    /\ page_counts' = Append(page_counts, [file |-> files[i], pages |-> page_count])
    /\ file_to_index' = record_index(file_to_index, files[i])
    /\ toc' = Append(toc, Entry(1, create_bookmark_title(files[i], article_titles), merged_pages))
    /\ open_docs' = open_docs \ {current_file_pdf}
    /\ current_file_pdf' = None
    /\ i' = i + 1
    /\ pc' = "loop"
    /\ UNCHANGED <<loop_frame, page_count, result>>

\* MergeFile with the callback given the number of fragments merged so far
MergeFile_reports_merged_count ==
    /\ MergeEffects
    /\ stats' = [stats EXCEPT !.files_processed = @ + 1, !.total_pages = @ + page_count]
    /\ progress_calls' = IF has_callback
                         THEN Append(progress_calls, <<Len(page_counts) + 1, Len(files)>>)
                         ELSE progress_calls
    /\ outcomes' = Append(outcomes, "merged")

\* lines 557-601: a fragment is merged and the callback, if any, returns
MergeFile ==
    /\ MergeEffects
    /\ stats' = [stats EXCEPT !.files_processed = @ + 1, !.total_pages = @ + page_count]
    /\ progress_calls' = IF has_callback THEN Append(progress_calls, <<i, Len(files)>>)
                         ELSE progress_calls
    /\ outcomes' = Append(outcomes, "merged")

\* lines 557-599 and 603-614: the callback raises after the fragment was merged
CallbackRaises ==
    /\ has_callback
    /\ MergeEffects
    /\ stats' = [stats EXCEPT !.files_processed = @ + 1, !.total_pages = @ + page_count,
                              !.errors = Append(@, [kind |-> "file", file |-> files[i]])]
    /\ progress_calls' = Append(progress_calls, <<i, Len(files)>>)
    /\ outcomes' = Append(outcomes, "callback_raised")


\* choose_toc that takes the builder's list even when it is empty
choose_toc_unguarded(structure, flat, fs, counts, f2i, titles) ==
    IF structure.present /\ structure.has_sections
    THEN build_hierarchical_toc(structure, fs, counts, f2i, titles)
    ELSE flat

\* the bookmark list after lines 616-628: the hierarchical list when there is
\* a structure and the builder returns entries, else the flat list
choose_toc(structure, flat, fs, counts, f2i, titles) ==
    LET truthy == structure.present
        hierarchical_toc == IF truthy THEN build_hierarchical_toc(structure, fs, counts, f2i, titles)
                            ELSE None
    IN IF hierarchical_toc # None /\ hierarchical_toc # <<>> THEN hierarchical_toc ELSE flat

\* lines 616-636: after the loop the bookmark list is chosen and, when
\* bookmarks are enabled and the list is not empty, given to set_toc
AssignToc ==
    /\ pc = "loop"
    /\ i > Len(files)
    /\ toc' = choose_toc(section_structure, toc, files, page_counts, file_to_index,
                         article_titles)
    /\ doc_toc' = IF bookmarks_enabled /\ toc' # <<>> THEN toc' ELSE None
    /\ pc' = "save"
    /\ UNCHANGED <<env_vars, files, i, merged_pages, merged_open, page_counts,
                   file_to_index, current_file_pdf, page_count, open_docs, stats,
                   progress_calls, out_dir, out_file, pending, result, outcomes>>

\* lines 639-641: the document is saved (fitz saves no document without
\* pages) and True is about to be returned
Save ==
    /\ pc = "save"
    /\ merged_pages > 0
    /\ out_file' = [written |-> TRUE, pages |-> merged_pages, toc |-> doc_toc]
    /\ pending' = "True"
    /\ pc' = "cleanup"
    /\ UNCHANGED <<env_vars, files, i, merged_pages, merged_open, toc, page_counts,
                   file_to_index, current_file_pdf, page_count, open_docs, doc_toc, stats,
                   progress_calls, out_dir, result, outcomes>>

\* line 639 raises (a document without pages, or the path cannot be written):
\* lines 643-648 record the error and raise FileProcessingError
SaveFails ==
    /\ pc = "save"
    /\ stats' = AddError("merge", None)
    /\ pending' = "False"
    /\ pc' = "cleanup"
    /\ UNCHANGED <<env_vars, files, i, merged_pages, merged_open, toc, page_counts,
                   file_to_index, current_file_pdf, page_count, open_docs, doc_toc,
                   progress_calls, out_dir, out_file, result, outcomes>>

\* lines 650-658: the finally block closes the merged document, and the
\* pending value is returned (False through lines 660-663 after an error)
Cleanup ==
    /\ pc = "cleanup"
    /\ merged_open' = FALSE
    /\ result' = pending
    /\ pc' = "done"
    /\ UNCHANGED <<env_vars, files, i, merged_pages, toc, page_counts, file_to_index,
                   current_file_pdf, page_count, open_docs, doc_toc, stats, progress_calls,
                   out_dir, out_file, pending, outcomes>>

\* line 652 tests the closed document of a zero-page file and raises: the
\* merged document stays open and lines 660-663 return False
CleanupOnStaleHandle ==
    /\ pc = "cleanup"
    /\ StaleHandle
    /\ result' = "False"
    /\ pc' = "done"
    /\ UNCHANGED <<env_vars, files, i, merged_pages, merged_open, toc, page_counts,
                   file_to_index, current_file_pdf, page_count, open_docs, doc_toc, stats,
                   progress_calls, out_dir, out_file, pending, outcomes>>

Next ==
    \/ GetFiles
    \/ MakeDirs
    \/ MakeDirsFails
    \/ FileMissing
    \/ OpenFails
    \/ OpenFailsOnStaleHandle
    \/ OpenDoc
    \/ ZeroPages
    \/ InsertFails
    \/ MergeFile
    \/ CallbackRaises
    \/ AssignToc
    \/ Save
    \/ SaveFails
    \/ Cleanup
    \/ CleanupOnStaleHandle

Spec == Init /\ [][Next]_vars


(***************************************************************************)
(* The File Selector alone: _get_pdf_files(directory_path, engine_filter)  *)
(* on every small directory.                                               *)
(***************************************************************************)
Entries == [isFile : BOOLEAN, mtime : -1..MaxMtime]
Listings == UNION {[S -> Entries] : S \in SubsetsUpTo(SelectNames, MaxListing)}

InitSelect ==
    /\ pc = "select"
    /\ \/ dir_exists = TRUE /\ listing \in Listings
       \/ dir_exists = FALSE /\ listing = <<>>
    /\ engine_filter \in {"none", "puppeteer", "single"}
    /\ article_titles = <<>>
    /\ section_structure = NoStructure
    /\ bookmarks_enabled = TRUE
    /\ has_callback = FALSE
    /\ arg_filename = None
    /\ ret_title = None
    /\ WalkIdle
    /\ ConfigIdle
    /\ LocalsInit
    /\ StatsIdle

\* lines 182-287
SelectFiles ==
    /\ pc = "select"
    /\ files' = get_pdf_files(dir_exists, listing, engine_filter)
    /\ pc' = "selected"
    /\ UNCHANGED <<env_vars, i, merged_pages, merged_open, toc, page_counts, file_to_index,
                   current_file_pdf, page_count, open_docs, doc_toc, stats, progress_calls,
                   out_dir, out_file, pending, result, outcomes>>

NextSelect == SelectFiles

SpecSelect == InitSelect /\ [][NextSelect]_vars

(***************************************************************************)
(* The Title Resolver alone: _create_bookmark_title(filename,              *)
(* article_titles) on every file name and TitleIndex of the model.         *)
(***************************************************************************)
InitTitle ==
    /\ pc = "title"
    /\ dir_exists = FALSE
    /\ listing = <<>>
    /\ engine_filter = "none"
    /\ article_titles \in TitleIndexes
    /\ section_structure = NoStructure
    /\ bookmarks_enabled = TRUE
    /\ has_callback = FALSE
    /\ arg_filename \in TitleNames
    /\ ret_title = None
    /\ WalkIdle
    /\ ConfigIdle
    /\ LocalsInit
    /\ StatsIdle

\* lines 304-355
ResolveTitle ==
    /\ pc = "title"
    /\ ret_title' = create_bookmark_title(arg_filename, article_titles)
    /\ pc' = "titled"
    /\ UNCHANGED <<dir_exists, listing, engine_filter, article_titles, section_structure,
                   bookmarks_enabled, has_callback, arg_filename, walk_vars, cfg_vars, stat_vars, files, i,
                   merged_pages,
                   merged_open, toc, page_counts, file_to_index, current_file_pdf,
                   page_count, open_docs, doc_toc, stats, progress_calls, out_dir,
                   out_file, pending, result, outcomes>>

NextTitle == ResolveTitle

SpecTitle == InitTitle /\ [][NextTitle]_vars


(***************************************************************************)
(* Directory Walker: run() and its merge_directory() without argument.     *)
(* A call of merge_pdfs_stream is taken by its outcome: what it returned   *)
(* and whether it wrote its output; the merge itself is Spec above.        *)
(* A file of a directory is a pair: <<"pdf", stem>> for stem.pdf, and      *)
(* <<"out", name>> for <name>_<current_date>.pdf.                          *)
(***************************************************************************)
\* the variables of the merge engine, the selector, the resolver and the
\* configuration
engine_vars ==
    <<pc, dir_exists, listing, engine_filter, article_titles, section_structure,
      bookmarks_enabled, has_callback, files, i, merged_pages, merged_open, toc,
      page_counts, file_to_index, current_file_pdf, page_count, open_docs, doc_toc,
      stats, progress_calls, out_dir, out_file, pending, result, outcomes,
      arg_filename, ret_title, cfg_vars, stat_vars>>

\* the names line 720 skips
HardcodedNames == {"finalPdf", "metadata", ".temp"}
\* a configuration that names the three directories itself
RenamedNames == [final |-> "out", metadata |-> "meta", temp |-> "tmp"]
\* url.hostname with '.' replaced by '_' (line 681)
Domain == "example_com"
\* the target that is pdf_dir itself
BaseDir == "."
\* a .pdf file that lies in a directory before the run
EarlierPdf == <<"pdf", "earlier">>
\* f"{name}_{current_date}.pdf" in final_pdf_dir (lines 703-706, 727-730)
OutputOf(name) == <<"out", name>>

\* the entries pdf_dir may hold
WalkItems ==
    {"docs", "api", "notes.txt", "finalPdf", "out", "metadata", "meta", ".temp", "tmp", Domain}
ItemContents(name) ==
    IF name = "notes.txt" THEN {[isDir |-> FALSE, files |-> {}]}
    ELSE {[isDir |-> TRUE, files |-> fs] : fs \in {{}, {EarlierPdf}}}
Trees ==
    UNION {{t \in [D -> UNION {ItemContents(d) : d \in D}] : \A d \in D : t[d] \in ItemContents(d)} :
             D \in SubsetsUpTo(WalkItems, MaxItems)}

\* the orders os.listdir may return a set of names in
Orders(S) == {o \in [1..Cardinality(S) -> S] : \A a, b \in 1..Cardinality(S) : a # b => o[a] # o[b]}

InitRun ==
    /\ pc = "walk"
    /\ dir_exists = FALSE
    /\ listing = <<>>
    /\ engine_filter = "none"
    /\ article_titles = <<>>
    /\ section_structure = NoStructure
    /\ bookmarks_enabled = TRUE
    /\ has_callback = FALSE
    /\ arg_filename = None
    /\ ret_title = None
    /\ LocalsInit
    /\ StatsIdle
    /\ ConfigIdle
    /\ wpc = "run"
    /\ config_names \in {DefaultNames, RenamedNames}
    /\ \/ pdf_dir_exists = TRUE /\ tree \in Trees /\ root_files \in {{}, {EarlierPdf}}
       \/ pdf_dir_exists = FALSE /\ tree = <<>> /\ root_files = {}
    /\ items = <<>>
    /\ item_pos = 0
    /\ merged_files = <<>>
    /\ invocations = <<>>
    /\ run_result = NoResult

\* the dict of lines 800-804
FailureResult ==
    [keys |-> {"success", "error", "statistics"}, success |-> FALSE, merged_files |-> <<>>]

\* RunMissingDir that returns the success dict
RunMissingDir_reports_success ==
    /\ wpc = "run"
    /\ ~pdf_dir_exists
    /\ run_result' = [keys |-> {"success", "merged_files", "statistics"}, success |-> TRUE,
                      merged_files |-> <<>>]
    /\ wpc' = "run_done"
    /\ UNCHANGED <<engine_vars, pdf_dir_exists, config_names, tree, root_files, items,
                   item_pos, merged_files, invocations>>

\* lines 673-674: pdf_dir does not exist; FileProcessingError leaves
\* merge_directory (lines 745-749) and run() returns the failure dict
RunMissingDir ==
    /\ wpc = "run"
    /\ ~pdf_dir_exists
    /\ run_result' = FailureResult
    /\ wpc' = "run_done"
    /\ UNCHANGED <<engine_vars, pdf_dir_exists, config_names, tree, root_files, items,
                   item_pos, merged_files, invocations>>

\* line 677 raises: same way out
RunMakeDirsFails ==
    /\ wpc = "run"
    /\ pdf_dir_exists
    /\ run_result' = FailureResult
    /\ wpc' = "run_done"
    /\ UNCHANGED <<engine_vars, pdf_dir_exists, config_names, tree, root_files, items,
                   item_pos, merged_files, invocations>>

\* lines 673-684: final_pdf_dir is made when it is not there
WalkMakeDirs ==
    /\ wpc = "run"
    /\ pdf_dir_exists
    /\ tree' = IF config_names.final \in DOMAIN tree THEN tree
               ELSE (config_names.final :> [isDir |-> TRUE, files |-> {}]) @@ tree
    /\ wpc' = "merge_root"
    /\ UNCHANGED <<engine_vars, pdf_dir_exists, config_names, root_files, items, item_pos,
                   merged_files, invocations, run_result>>

\* the .pdf files of a target when merge_pdfs_stream lists it
TargetFiles(target) == IF target = BaseDir THEN root_files ELSE tree[target].files

\* what merge_pdfs_stream may do on a directory with these .pdf files: False
\* without output on none (lines 518-520); else True after the save, False
\* without output, or False after the save (lines 650-663)
EngineOutcomes(fs) ==
    IF fs = {} THEN {[returned |-> FALSE, wrote |-> FALSE]}
    ELSE {[returned |-> TRUE, wrote |-> TRUE], [returned |-> FALSE, wrote |-> FALSE],
          [returned |-> FALSE, wrote |-> TRUE]}

\* if self.merge_pdfs_stream(path, output_path): merged_files.append(output_path)
Invoke(target, name) ==
    \E o \in EngineOutcomes(TargetFiles(target)) :
        /\ invocations' = Append(invocations,
                                 [target |-> target, output |-> OutputOf(name),
                                  inputs |-> TargetFiles(target),
                                  returned |-> o.returned, wrote |-> o.wrote])
        /\ tree' = IF o.wrote
                   THEN [tree EXCEPT ![config_names.final].files = @ \cup {OutputOf(name)}]
                   ELSE tree
        /\ merged_files' = IF o.returned THEN Append(merged_files, OutputOf(name))
                           ELSE merged_files

\* lines 703-708: the base directory is merged first
MergeRoot ==
    /\ wpc = "merge_root"
    /\ Invoke(BaseDir, Domain)
    /\ wpc' = "list_items"
    /\ UNCHANGED <<engine_vars, pdf_dir_exists, config_names, root_files, items, item_pos,
                   run_result>>

\* line 712: the entries of pdf_dir in the order the system gives them (the
\* .pdf files of pdf_dir itself are entries the loop skips as non-directories)
ListItems ==
    /\ wpc = "list_items"
    /\ items' \in Orders(DOMAIN tree)
    /\ item_pos' = 1
    /\ wpc' = "item_loop"
    /\ UNCHANGED <<engine_vars, pdf_dir_exists, config_names, tree, root_files,
                   merged_files, invocations, run_result>>

\* line 712 raises: lines 738-740 log it and the list so far is returned
ListItemsFails ==
    /\ wpc = "list_items"
    /\ items' = <<>>
    /\ item_pos' = 1
    /\ wpc' = "item_loop"
    /\ UNCHANGED <<engine_vars, pdf_dir_exists, config_names, tree, root_files,
                   merged_files, invocations, run_result>>

InItemLoop == wpc = "item_loop" /\ item_pos <= Len(items)

\* the test of line 720
Skipped(item) == ~tree[item].isDir \/ item \in HardcodedNames

\* lines 719-722: an entry that is no directory or has one of the three names
SkipItem ==
    /\ InItemLoop
    /\ Skipped(items[item_pos])
    /\ item_pos' = item_pos + 1
    /\ UNCHANGED <<engine_vars, wpc, pdf_dir_exists, config_names, tree, root_files, items,
                   merged_files, invocations, run_result>>

\* lines 726-732: a subdirectory is merged
MergeItem ==
    /\ InItemLoop
    /\ ~Skipped(items[item_pos])
    /\ Invoke(items[item_pos], items[item_pos])
    /\ item_pos' = item_pos + 1
    /\ UNCHANGED <<engine_vars, wpc, pdf_dir_exists, config_names, root_files, items,
                   run_result>>

\* line 743 and lines 782-794: merge_directory returns its list and run()
\* the success dict
RunReturns ==
    /\ wpc = "item_loop"
    /\ item_pos > Len(items)
    /\ run_result' = [keys |-> {"success", "merged_files", "statistics"}, success |-> TRUE,
                      merged_files |-> merged_files]
    /\ wpc' = "run_done"
    /\ UNCHANGED <<engine_vars, pdf_dir_exists, config_names, tree, root_files, items,
                   item_pos, merged_files, invocations>>

NextRun ==
    \/ RunMissingDir
    \/ RunMakeDirsFails
    \/ WalkMakeDirs
    \/ MergeRoot
    \/ ListItems
    \/ ListItemsFails
    \/ SkipItem
    \/ MergeItem
    \/ RunReturns

SpecRun == InitRun /\ [][NextRun]_vars

\* run() is sequential code: a step that can be taken is taken
FairSpecRun == SpecRun /\ WF_vars(NextRun)


(***************************************************************************)
(* PDFMerger.__init__: the configuration file, then the two metadata       *)
(* files.  A JSON value is [t, s, n]: its type, and its text or number.    *)
(* The configuration file is taken to hold a JSON object when it parses.   *)
(***************************************************************************)
StrVal(x) == [t |-> "str", s |-> x, n |-> 0]
IntVal(k) == [t |-> "int", s |-> <<>>, n |-> k]

UrlGood == <<"h", "t", "t", "p", "s", ":", "/", "/", "e", ".", "c", "o", "m">>
DirPdfs == <<"p", "d", "f", "s">>

\* everything but the configuration state and the loaded metadata
ctor_frame ==
    <<pc, dir_exists, listing, engine_filter, bookmarks_enabled, has_callback, files, i,
      merged_pages, merged_open, toc, page_counts, file_to_index, current_file_pdf,
      page_count, open_docs, doc_toc, stats, progress_calls, out_dir, out_file, pending,
      result, outcomes, arg_filename, ret_title, walk_vars, stat_vars>>

\* the configuration files a PDFMerger is constructed on
CtorConfigFiles ==
    {[kind |-> "missing", raw |-> <<>>], [kind |-> "invalid", raw |-> <<>>]}
    \cup {[kind |-> "object",
           raw |-> [k \in K |-> IF k = "rootURL" THEN StrVal(UrlGood) ELSE StrVal(DirPdfs)]] :
            K \in SUBSET {"rootURL", "pdfDir"}}

\* a metadata file is absent, is no JSON, holds {} or holds entries
MetaStates == {"absent", "malformed", "empty", "valid"}
MetaFiles ==
    [titles_meta : MetaStates, titles_fallback : MetaStates,
     structure_meta : MetaStates, structure_fallback : MetaStates]

\* what the valid files hold
TitlesInMeta == (<<"1">> :> T_Intro)
TitlesInFallback == (<<"1">> :> T_Alt)
StructureInMeta ==
    [present |-> TRUE, has_sections |-> TRUE,
     sections |-> <<[title |-> SectionTitle(1), pages |-> <<[index |-> <<"1">>]>>]>>]
StructureInFallback ==
    [present |-> TRUE, has_sections |-> TRUE,
     sections |-> <<[title |-> SectionTitle(2), pages |-> <<[index |-> <<"2">>]>>]>>]

\* _load_config without the test of the required keys
load_config_unchecked(file) ==
    IF file.kind = "missing" THEN [error |-> "ConfigurationError", config |-> <<>>]
    ELSE IF file.kind = "invalid" THEN [error |-> "ConfigurationError", config |-> <<>>]
    ELSE [error |-> "None", config |-> file.raw]

\* _load_config(config_path): the error raised and the dict returned
load_config(file) ==
    IF file.kind = "missing" THEN [error |-> "ConfigurationError", config |-> <<>>]
    ELSE IF file.kind = "invalid" THEN [error |-> "ConfigurationError", config |-> <<>>]
    ELSE IF \E key \in {"rootURL", "pdfDir"} : key \notin DOMAIN file.raw
         THEN [error |-> "ConfigurationError", config |-> <<>>]
    ELSE [error |-> "None", config |-> file.raw]

\* _load_article_titles(): the dict returned and the files opened.  An
\* exception in either read ends the function with the dict read so far.
load_article_titles(mf) ==
    IF mf.titles_meta = "malformed" THEN [titles |-> <<>>, reads |-> <<"titles_meta">>]
    ELSE IF mf.titles_meta = "valid" THEN [titles |-> TitlesInMeta, reads |-> <<"titles_meta">>]
    ELSE LET first == IF mf.titles_meta = "empty" THEN <<"titles_meta">> ELSE <<>>
         IN IF mf.titles_fallback = "absent" THEN [titles |-> <<>>, reads |-> first]
            ELSE IF mf.titles_fallback = "valid"
                 THEN [titles |-> TitlesInFallback, reads |-> Append(first, "titles_fallback")]
            ELSE [titles |-> <<>>, reads |-> Append(first, "titles_fallback")]

\* _load_section_structure that returns what the first file was to hold even
\* when it cannot be parsed
load_section_structure_unparsed(mf) ==
    IF mf.structure_meta # "absent"
    THEN [structure |-> StructureInMeta, reads |-> <<"structure_meta">>]
    ELSE IF mf.structure_fallback # "absent"
    THEN [structure |-> StructureInFallback, reads |-> <<"structure_fallback">>]
    ELSE [structure |-> NoStructure, reads |-> <<>>]

\* _load_section_structure(): the value returned (None and {} both count as
\* no structure) and the files opened.  The first file that exists decides.
load_section_structure(mf) ==
    IF mf.structure_meta # "absent"
    THEN [structure |-> IF mf.structure_meta = "valid" THEN StructureInMeta ELSE NoStructure,
          reads |-> <<"structure_meta">>]
    ELSE IF mf.structure_fallback # "absent"
    THEN [structure |-> IF mf.structure_fallback = "valid" THEN StructureInFallback
                        ELSE NoStructure,
          reads |-> <<"structure_fallback">>]
    ELSE [structure |-> NoStructure, reads |-> <<>>]

InitCtor ==
    /\ pc = "ctor"
    /\ dir_exists = FALSE
    /\ listing = <<>>
    /\ engine_filter = "none"
    /\ article_titles = <<>>
    /\ section_structure = NoStructure
    /\ bookmarks_enabled = TRUE
    /\ has_callback = FALSE
    /\ arg_filename = None
    /\ ret_title = None
    /\ LocalsInit
    /\ StatsIdle
    /\ WalkIdle
    /\ cpc = "ctor"
    /\ config_file \in CtorConfigFiles
    /\ meta_files \in MetaFiles
    /\ environ = <<>>
    /\ ctor_log = <<>>
    /\ ctor_error = "None"
    /\ merger_config = <<>>
    /\ cm_config = <<>>
    /\ cm_validated = FALSE
    /\ cm_outcome = NoOutcome

\* the configuration file is opened when it exists (lines 98-102)
ConfigRead == IF config_file.kind = "missing" THEN <<>> ELSE <<"config">>

\* line 53: _load_config raises and __init__ ends
CtorLoadConfigFails ==
    /\ cpc = "ctor"
    /\ load_config(config_file).error # "None"
    /\ ctor_error' = load_config(config_file).error
    /\ ctor_log' = ctor_log \o ConfigRead
    /\ cpc' = "ctor_raised"
    /\ UNCHANGED <<ctor_frame, article_titles, section_structure, config_file, meta_files,
                   environ, merger_config, cm_config, cm_validated, cm_outcome>>

\* lines 53-74: the configuration is loaded, the paths and statistics set
CtorLoadConfig ==
    /\ cpc = "ctor"
    /\ load_config(config_file).error = "None"
    /\ merger_config' = load_config(config_file).config
    /\ ctor_log' = ctor_log \o ConfigRead
    /\ cpc' = "ctor_titles"
    /\ UNCHANGED <<ctor_frame, article_titles, section_structure, config_file, meta_files,
                   environ, ctor_error, cm_config, cm_validated, cm_outcome>>

\* line 77: self.article_titles = self._load_article_titles()
CtorLoadTitles ==
    /\ cpc = "ctor_titles"
    /\ article_titles' = load_article_titles(meta_files).titles
    /\ ctor_log' = ctor_log \o load_article_titles(meta_files).reads
    /\ cpc' = "ctor_structure"
    /\ UNCHANGED <<ctor_frame, section_structure, config_file, meta_files, environ,
                   ctor_error, merger_config, cm_config, cm_validated, cm_outcome>>

\* line 80: self.section_structure = self._load_section_structure()
CtorLoadStructure ==
    /\ cpc = "ctor_structure"
    /\ section_structure' = load_section_structure(meta_files).structure
    /\ ctor_log' = ctor_log \o load_section_structure(meta_files).reads
    /\ cpc' = "constructed"
    /\ UNCHANGED <<ctor_frame, article_titles, config_file, meta_files, environ,
                   ctor_error, merger_config, cm_config, cm_validated, cm_outcome>>

NextCtor ==
    \/ CtorLoadConfigFails
    \/ CtorLoadConfig
    \/ CtorLoadTitles
    \/ CtorLoadStructure

SpecCtor == InitCtor /\ [][NextCtor]_vars


(***************************************************************************)
(* ConfigManager.load (config_manager.py).  Of the configuration the keys  *)
(* rootURL, pdfDir, concurrency and logLevel are kept; the other defaults  *)
(* pass through load() unchanged.                                          *)
(***************************************************************************)
UrlFtp == <<"f", "t", "p", ":", "/", "/", "e", ".", "c", "o", "m">>
UrlEnv == <<"h", "t", "t", "p", "s", ":", "/", "/", "v", ".", "o", "r", "g">>
DirSlash == <<"o", "u", "t", "/", "/">>
DirOut == <<"o", "u", "t">>
DirEnv == <<"e", "n", "v", "_", "p", "d", "f", "s">>
LevelInfo == <<"i", "n", "f", "o">>
LevelDebug == <<"d", "e", "b", "u", "g">>
NotANumber == <<"a", "b", "c">>
Empty == <<>>

\* DEFAULT_CONFIG, lines 30-53
DEFAULT_CONFIG ==
    ("pdfDir" :> StrVal(DirPdfs)) @@ ("concurrency" :> IntVal(DefaultConcurrency))
    @@ ("logLevel" :> StrVal(LevelInfo))

\* TYPE_MAPPING, lines 59-73
TYPE_MAPPING ==
    ("rootURL" :> "str") @@ ("pdfDir" :> "str") @@ ("concurrency" :> "int")
    @@ ("logLevel" :> "str")

\* the keys in the order TYPE_MAPPING lists them
TypedKeys == <<"rootURL", "pdfDir", "concurrency", "logLevel">>

\* the values a configuration file may give a key
RawValues(key) ==
    IF key = "rootURL"
    THEN {StrVal(UrlGood), StrVal(Empty), StrVal(UrlFtp), IntVal(WrongTypeNumber)}
    ELSE IF key = "pdfDir"
    THEN {StrVal(DirPdfs), StrVal(DirSlash), StrVal(Empty), IntVal(WrongTypeNumber)}
    ELSE {IntVal(UserConcurrency), IntVal(TooManyWorkers), StrVal(NotANumber)}

\* the configuration files a ConfigManager loads
CmConfigFiles ==
    {[kind |-> "missing", raw |-> <<>>], [kind |-> "invalid", raw |-> <<>>]}
    \cup UNION {{[kind |-> "object", raw |-> r] :
                   r \in {f \in [K -> UNION {RawValues(k) : k \in K}] :
                            \A k \in K : f[k] \in RawValues(k)}} :
                 K \in SUBSET {"rootURL", "pdfDir", "concurrency"}}

\* the environments load() runs in
EnvValues(name) ==
    IF name = "PDF_DIR" THEN {DirEnv}
    ELSE IF name = "ROOT_URL" THEN {UrlEnv}
    ELSE IF name = "CONCURRENCY" THEN {<<"1", "0">>, NotANumber}
    ELSE {LevelDebug}
Environments ==
    UNION {{e \in [V -> UNION {EnvValues(v) : v \in V}] : \A v \in V : e[v] \in EnvValues(v)} :
             V \in SUBSET {"PDF_DIR", "ROOT_URL", "CONCURRENCY", "LOG_LEVEL"}}

\* deep_merge(DEFAULT_CONFIG, user_config) on the keys kept (lines 152-162)
merge_with_defaults(user_config) == user_config @@ DEFAULT_CONFIG

\* bool(value) of a JSON string or number
Truthy(v) == IF v.t = "str" THEN v.s # <<>> ELSE v.n # 0

\* _validate_url (lines 200-219): scheme and netloc are there and the scheme
\* is http or https
url_ok(url) ==
    \/ startswith(url, <<"h", "t", "t", "p", ":", "/", "/">>) /\ Len(url) > 7 /\ url[8] # "/"
    \/ startswith(url, <<"h", "t", "t", "p", "s", ":", "/", "/">>) /\ Len(url) > 8 /\ url[9] # "/"

\* _validate_config (lines 164-198): the reason of the first check that
\* fails, "None" when all pass
RECURSIVE first_wrong_type(_, _)
first_wrong_type(config, keys) ==
    IF keys = <<>> THEN "None"
    ELSE IF Head(keys) \in DOMAIN config /\ config[Head(keys)].t # TYPE_MAPPING[Head(keys)]
         THEN "type"
    ELSE first_wrong_type(config, Tail(keys))

validate_config(config) ==
    IF \E key \in {"rootURL", "pdfDir"} : key \notin DOMAIN config \/ ~Truthy(config[key])
    THEN "required"
    ELSE IF first_wrong_type(config, TypedKeys) # "None" THEN "type"
    ELSE IF ~url_ok(config["rootURL"].s) THEN "url"
    ELSE IF ~(MinConcurrency <= config["concurrency"].n
              /\ config["concurrency"].n <= MaxConcurrency) THEN "range"
    ELSE "None"

\* _process_environment_variables (lines 261-283): a variable that is set and
\* not empty replaces the key's value; CONCURRENCY only when int() takes it
env_mappings ==
    ("PDF_DIR" :> "pdfDir") @@ ("ROOT_URL" :> "rootURL")
    @@ ("CONCURRENCY" :> "concurrency") @@ ("LOG_LEVEL" :> "logLevel")

process_environment_variables(config, env) ==
    LET used == {v \in DOMAIN env :
                   /\ env[v] # <<>>
                   /\ v = "CONCURRENCY" => int_ok(env[v])}
        value(v) == IF v = "CONCURRENCY" THEN IntVal(int_value(env[v])) ELSE StrVal(env[v])
    IN [key \in DOMAIN config \cup {env_mappings[v] : v \in used} |->
          IF \E v \in used : env_mappings[v] = key
          THEN value(CHOOSE v \in used : env_mappings[v] = key)
          ELSE config[key]]

\* os.path.normpath for a relative path without '..': empty and '.'
\* components go, separators are single, the empty path is '.'
RECURSIVE path_parts(_)
path_parts(p) ==
    LET k == Find(p, <<"/">>)
    IN IF k = 0 THEN <<p>> ELSE <<SubSeq(p, 1, k - 1)>> \o path_parts(DropTo(p, k + 1))

RECURSIVE join_slash(_)
join_slash(ps) ==
    IF ps = <<>> THEN <<>>
    ELSE IF Len(ps) = 1 THEN ps[1]
    ELSE ps[1] \o <<"/">> \o join_slash(Tail(ps))

normpath(p) ==
    LET kept == SelectSeq(path_parts(p), LAMBDA c : c # <<>> /\ c # <<".">>)
    IN IF kept = <<>> THEN <<".">> ELSE join_slash(kept)

\* _normalize_paths (lines 285-307) on the keys kept
normalize_paths(config) ==
    [key \in DOMAIN config |->
        IF key = "pdfDir" THEN StrVal(normpath(config[key].s)) ELSE config[key]]

InitConfig ==
    /\ pc = "config"
    /\ dir_exists = FALSE
    /\ listing = <<>>
    /\ engine_filter = "none"
    /\ article_titles = <<>>
    /\ section_structure = NoStructure
    /\ bookmarks_enabled = TRUE
    /\ has_callback = FALSE
    /\ arg_filename = None
    /\ ret_title = None
    /\ LocalsInit
    /\ StatsIdle
    /\ WalkIdle
    /\ cpc = "load"
    /\ config_file \in CmConfigFiles
    /\ meta_files = NoMetaFiles
    /\ environ \in Environments
    /\ ctor_log = <<>>
    /\ ctor_error = "None"
    /\ merger_config = <<>>
    /\ cm_config = <<>>
    /\ cm_validated = FALSE
    /\ cm_outcome = NoOutcome

\* load() is under way: the first call on the manager, or a second one
Loading == cpc \in {"load", "reload"}
AfterLoad == IF cpc = "load" THEN "loaded" ELSE "reloaded"

\* lines 113-115 and 137-140: the file is missing or is no JSON
LoadUnreadable ==
    /\ Loading
    /\ config_file.kind \in {"missing", "invalid"}
    /\ cm_outcome' = [raised |-> "ConfigValidationError", returned |-> <<>>]
    /\ cpc' = AfterLoad
    /\ UNCHANGED <<ctor_frame, article_titles, section_structure, config_file, meta_files,
                   environ, ctor_log, ctor_error, merger_config, cm_config, cm_validated>>

\* lines 117-125 and 139-140: the merged configuration is stored and a check
\* of _validate_config fails
LoadInvalid ==
    /\ Loading
    /\ config_file.kind = "object"
    /\ validate_config(merge_with_defaults(config_file.raw)) # "None"
    /\ cm_config' = merge_with_defaults(config_file.raw)
    /\ cm_outcome' = [raised |-> "ConfigValidationError", returned |-> <<>>]
    /\ cpc' = AfterLoad
    /\ UNCHANGED <<ctor_frame, article_titles, section_structure, config_file, meta_files,
                   environ, ctor_log, ctor_error, merger_config, cm_validated>>

\* lines 117-135: merged, validated, overridden by the environment,
\* normalised and returned
LoadValid ==
    /\ Loading
    /\ config_file.kind = "object"
    /\ validate_config(merge_with_defaults(config_file.raw)) = "None"
    /\ cm_config' = normalize_paths(process_environment_variables(
                        merge_with_defaults(config_file.raw), environ))
    /\ cm_validated' = TRUE
    /\ cm_outcome' = [raised |-> "None", returned |-> cm_config']
    /\ cpc' = AfterLoad
    /\ UNCHANGED <<ctor_frame, article_titles, section_structure, config_file, meta_files,
                   environ, ctor_log, ctor_error, merger_config>>

\* between two calls of load() on one ConfigManager the file is edited
FileEdited ==
    /\ cpc = "loaded"
    /\ config_file' \in CmConfigFiles \ {config_file}
    /\ cpc' = "reload"
    /\ UNCHANGED <<ctor_frame, article_titles, section_structure, meta_files, environ,
                   ctor_log, ctor_error, merger_config, cm_config, cm_validated, cm_outcome>>

NextConfig ==
    \/ LoadUnreadable
    \/ LoadInvalid
    \/ LoadValid
    \/ FileEdited

SpecConfig == InitConfig /\ [][NextConfig]_vars


(***************************************************************************)
(* Notions the properties are stated with.  They are written from the      *)
(* state of a run, not with the operators the model computes the lists by. *)
(***************************************************************************)
MergedKinds == {"merged", "callback_raised"}

\* the positions of files whose pages were appended
MergedPositions == {k \in 1..Len(outcomes) : outcomes[k] \in MergedKinds}

RECURSIVE SumPages(_)
SumPages(counts) ==
    IF counts = <<>> THEN 0 ELSE counts[1].pages + SumPages(Tail(counts))

\* the 1-based first page, in the merged document, of the k-th merged fragment
StartPage(k) == 1 + SumPages(SubSeq(page_counts, 1, k - 1))

\* the bookmark list was chosen (lines 616-628 were passed)
TocChosen == pc \in {"save", "cleanup", "done"} /\ i > Len(files)

\* the call was left by an exception out of the fragment loop
Aborted == pc = "done" /\ i >= 1 /\ i <= Len(files)

\* a page reference key names a merged fragment
Resolves(key) == key # <<>> /\ \E f \in DOMAIN file_to_index : file_to_index[f] = key

\* the position, among the merged fragments, of the last one with that key
MergedPos(key) ==
    LET hits == {k \in 1..Len(page_counts) :
                    /\ page_counts[k].file \in DOMAIN file_to_index
                    /\ file_to_index[page_counts[k].file] = key}
    IN CHOOSE k \in hits : \A j \in hits : j <= k

\* the keys of the page references of a section that resolve, in listed order
ResolvedKeys(section) ==
    LET keys == [k \in 1..Len(section.pages) |-> section.pages[k].index]
    IN SelectSeq(keys, Resolves)

\* the resolved keys of all sections, section after section
RECURSIVE AllResolvedKeys(_)
AllResolvedKeys(sections) ==
    IF sections = <<>> THEN <<>>
    ELSE ResolvedKeys(sections[1]) \o AllResolvedKeys(Tail(sections))

\* no structure, or no section of it names a merged fragment
NoSectionResolves ==
    \/ ~section_structure.present
    \/ ~section_structure.has_sections
    \/ AllResolvedKeys(section_structure.sections) = <<>>

IsFlat(t) == \A k \in 1..Len(t) : t[k].level = 1
NonDecreasing(t) == \A k \in 1..(Len(t) - 1) : t[k].page <= t[k + 1].page
Increasing(t) == \A k \in 1..(Len(t) - 1) : t[k].page < t[k + 1].page

\* the resolved page references name fragments in the order they were merged
RefsInMergeOrder ==
    LET keys == AllResolvedKeys(section_structure.sections)
    IN \A a, b \in 1..Len(keys) : a < b => MergedPos(keys[a]) <= MergedPos(keys[b])


(***************************************************************************)
(* Properties of the Merge Engine.                                         *)
(***************************************************************************)
\* C1: at every point of merge_pdfs_stream the page count of the merged
\* document is the sum of the page counts of the fragments whose pages were
\* appended, these are exactly the fragments recorded in page_counts, and a
\* fragment that was missing, had no pages or failed on open or insert
\* contributes no page; what is saved has that many pages.
C1_MergedPagesAreTheAppendedPages ==
    /\ merged_pages = SumPages(page_counts)
    /\ Len(page_counts) = Cardinality(MergedPositions)
    /\ \A k \in 1..Len(page_counts) :
          /\ page_counts[k].pages >= 1
          /\ \E n \in MergedPositions : files[n] = page_counts[k].file
    /\ \A n \in 1..Len(outcomes) :
          n \notin MergedPositions => page_count_of(page_counts, files[n]) = 0
    /\ out_file.written => out_file.pages = merged_pages

\* C1 witness: a finished merge in which one fragment was appended and
\* another was skipped or failed.
C1_Witness ==
    /\ pc = "done"
    /\ out_file.written
    /\ merged_pages >= 1
    /\ \E n \in 1..Len(outcomes) : outcomes[n] \in {"open_failed", "insert_failed", "zero_pages", "missing"}

\* C2 as stated: the bookmark list given to the output never decreases in
\* target page, whatever the SectionStructure.
C2_TocNeverDecreases == NonDecreasing(doc_toc)

\* C2 amended: a flat bookmark list strictly increases in target page; a
\* hierarchical list follows the SectionStructure, and is non-decreasing
\* exactly when the resolved page references, read section by section in
\* listed order, name the fragments in merge order.
C2_TocOrderFollowsStructure ==
    doc_toc # <<>> =>
        IF IsFlat(doc_toc) THEN Increasing(doc_toc)
        ELSE NonDecreasing(doc_toc) <=> RefsInMergeOrder

\* C2 witness: a hierarchical list over two fragments listed in merge order.
C2_Witness ==
    /\ doc_toc # <<>>
    /\ ~IsFlat(doc_toc)
    /\ RefsInMergeOrder
    /\ doc_toc[1].page < doc_toc[Len(doc_toc)].page

\* C3: every entry of the bookmark list given to the output targets a page p
\* with 1 <= p <= total pages, and p is the first page of the fragment the
\* entry stands for: the k-th flat entry stands for the k-th merged fragment,
\* the k-th level-2 entry for the fragment the k-th resolved page reference
\* names, and a level-1 section entry for the fragment of the level-2 entry
\* that follows it.
C3_EntriesTargetFirstPages ==
    doc_toc # <<>> =>
        /\ \A k \in 1..Len(doc_toc) :
              /\ 1 <= doc_toc[k].page
              /\ doc_toc[k].page <= merged_pages
              /\ doc_toc[k].link = doc_toc[k].page - 1
        /\ IF IsFlat(doc_toc)
           THEN /\ Len(doc_toc) = Len(page_counts)
                /\ \A k \in 1..Len(doc_toc) : doc_toc[k].page = StartPage(k)
           ELSE LET keys == AllResolvedKeys(section_structure.sections)
                    level2 == SelectSeq(doc_toc, LAMBDA e : e.level = 2)
                IN /\ Len(level2) = Len(keys)
                   /\ \A k \in 1..Len(keys) : level2[k].page = StartPage(MergedPos(keys[k]))
                   /\ \A k \in 1..Len(doc_toc) :
                         doc_toc[k].level = 1 =>
                            /\ k < Len(doc_toc)
                            /\ doc_toc[k + 1].level = 2
                            /\ doc_toc[k + 1].page = doc_toc[k].page

\* C3 witness: the bookmarks written to a two-page output whose only merged
\* fragment is the second listed one, the first having been skipped.
C3_Witness ==
    /\ out_file.written
    /\ out_file.pages = 2
    /\ out_file.toc # <<>>
    /\ Len(outcomes) = 2
    /\ outcomes[1] \notin MergedKinds
    /\ outcomes[2] \in MergedKinds

\* the flat list: one level-1 entry per merged fragment, in merge order,
\* titled by the Title Resolver
FlatList ==
    [k \in 1..Len(page_counts) |->
        [level |-> 1,
         title |-> create_bookmark_title(page_counts[k].file, article_titles),
         page |-> StartPage(k),
         link |-> StartPage(k) - 1]]

\* C4: when the SectionStructure is absent, or none of its sections resolves
\* to a merged fragment, the bookmark list built for the output is the flat
\* one: one level-1 entry per merged fragment, in merge order, titled by the
\* Title Resolver (N entries for N merged fragments); it is the list given to
\* the output when bookmarks are enabled.
C4_FlatListWithoutSections ==
    (TocChosen /\ NoSectionResolves) =>
        /\ toc = FlatList
        /\ Len(toc) = Cardinality(MergedPositions)
        /\ bookmarks_enabled => doc_toc = toc
        /\ out_file.written => out_file.toc = doc_toc

\* C4 witness: a saved output of two merged fragments under a structure whose
\* sections name no merged fragment.
C4_Witness ==
    /\ out_file.written
    /\ section_structure.present
    /\ section_structure.has_sections
    /\ section_structure.sections # <<>>
    /\ NoSectionResolves
    /\ Len(out_file.toc) = 2

\* the entries a section stands for: nothing without a resolved page
\* reference, else its level-1 entry and one level-2 entry per resolved
\* reference, as [level, page] and, at level 1, the title
SectionBlock(section) ==
    LET keys == ResolvedKeys(section)
    IN IF keys = <<>> THEN <<>>
       ELSE <<[level |-> 1, title |-> section.title,
               page |-> StartPage(MergedPos(keys[1]))]>>
            \o [k \in 1..Len(keys) |->
                  [level |-> 2, title |-> <<>>, page |-> StartPage(MergedPos(keys[k]))]]

RECURSIVE SectionBlocks(_)
SectionBlocks(sections) ==
    IF sections = <<>> THEN <<>>
    ELSE SectionBlock(sections[1]) \o SectionBlocks(Tail(sections))

\* C5: when a section names a merged fragment, the list the Hierarchy Builder
\* returns is, section after section in SectionStructure order, one level-1
\* entry with the section title and the start page of the first resolved page
\* reference, followed by one level-2 entry per resolved page reference in
\* listed order; unresolved references and sections without a resolved
\* reference emit nothing.
C5_HierarchicalListBySection ==
    (TocChosen /\ ~NoSectionResolves) =>
        LET blocks == SectionBlocks(section_structure.sections)
        IN /\ Len(toc) = Len(blocks)
           /\ \A k \in 1..Len(toc) :
                 /\ toc[k].level = blocks[k].level
                 /\ toc[k].page = blocks[k].page
                 /\ toc[k].level = 1 => toc[k].title = blocks[k].title

\* C5 witness: two sections are emitted, and a page reference was skipped.
C5_Witness ==
    /\ TocChosen
    /\ ~NoSectionResolves
    /\ Cardinality({k \in 1..Len(toc) : toc[k].level = 1}) = 2
    /\ \E n \in 1..Len(section_structure.sections) :
          Len(ResolvedKeys(section_structure.sections[n]))
             < Len(section_structure.sections[n].pages)


\* C6 as stated (failures to create the output directory or to write the
\* file aside): merge_pdfs_stream returns True if and only if at least one
\* fragment was merged.
C6_TrueIffAFragmentMerged ==
    (pc = "done" /\ \A k \in 1..Len(stats.errors) : stats.errors[k].kind # "merge") =>
        (result = "True" <=> MergedPositions # {})

\* a directory that does not exist, or without an entry that is a regular
\* file with the .pdf extension
NoEligibleFragment ==
    \/ ~dir_exists
    \/ \A f \in DOMAIN listing : ~(endswith(f, PdfExt) /\ listing[f].isFile)

\* C7: merging a directory that does not exist or holds no eligible fragment
\* returns False straight after the File Selector's empty answer: nothing was
\* opened, no output directory or file was made, no error was recorded.
C7_NothingToMergeReturnsFalse ==
    (pc # "start" /\ NoEligibleFragment) =>
        /\ pc = "done"
        /\ files = <<>>
        /\ result = "False"
        /\ ~out_file.written
        /\ ~out_dir
        /\ ~merged_open
        /\ outcomes = <<>>
        /\ current_file_pdf = None
        /\ open_docs = {}
        /\ stats = NoStats

\* C7 witness: the call returned on a directory that exists and holds only
\* entries that are not eligible.
C7_Witness ==
    /\ pc = "done"
    /\ dir_exists
    /\ DOMAIN listing # {}
    /\ NoEligibleFragment
    /\ result = "False"

\* C8 as stated: a fragment that cannot be opened has its error recorded and
\* does not abort the merge; the merged document holds the pages of the valid
\* fragments, and True is returned when another fragment was merged and the
\* output written.
C8_CorruptFragmentDoesNotAbort ==
    \A n \in 1..Len(outcomes) :
        outcomes[n] = "open_failed" =>
            /\ \E k \in 1..Len(stats.errors) :
                  stats.errors[k].kind = "file" /\ stats.errors[k].file = files[n]
            /\ ~Aborted
            /\ merged_pages = SumPages(page_counts)
            /\ (pc = "done" /\ MergedPositions # {} /\ out_file.written) => result = "True"

(***************************************************************************)
(* Properties of the File Selector.                                        *)
(***************************************************************************)
\* the sort key of section 4.1: numeric prefix, 8-hex-digit prefix, other
StatedKey(f) ==
    LET prefix == split1(name_for_sorting(f), Dash)[1]
    IN IF isdigit(prefix) THEN <<0, DigitsValue(prefix), f>>
       ELSE IF is_hash_prefix(prefix)
            THEN <<1, IF listing[f].mtime < 0 THEN 0 ELSE listing[f].mtime, f>>
       ELSE <<2, 0, f>>

\* the entries the selector is to return
StatedEligible ==
    IF ~dir_exists THEN {}
    ELSE {f \in DOMAIN listing :
            /\ endswith(f, PdfExt)
            /\ listing[f].isFile
            /\ engine_filter = "puppeteer" => Contains(f, PuppeteerPdf)
            /\ engine_filter = "single" => ~Contains(f, PuppeteerPdf)}

\* C9 as stated: _get_pdf_files returns every eligible file name once, in
\* ascending (bucket, secondaryKey, filename) order: numeric prefixes first
\* and by integer value, then hash prefixes, then every other name.
C9_SelectedInStatedOrder ==
    pc = "selected" =>
        /\ Len(files) = Cardinality(StatedEligible)
        /\ {files[k] : k \in 1..Len(files)} = StatedEligible
        /\ \A a, b \in 1..Len(files) :
              a < b => KeyLess(StatedKey(files[a]), StatedKey(files[b]))

(***************************************************************************)
(* Properties of the Title Resolver.                                       *)
(***************************************************************************)
\* the three forms of the number 1
FormsOfOne == {<<"1">>, <<"0", "1">>, <<"0", "0", "1">>}

\* C10: for a file whose prefix is "1", "01" or "001", the resolved title is
\* a title the TitleIndex stores under one of the forms "1", "01", "001",
\* whenever it stores one; with the index {"1": "Intro"} the file
\* 1-anything.pdf resolves to "Intro".
C10_ZeroPadEquivalence ==
    (pc = "titled" /\ split1(arg_filename, Dash)[1] \in FormsOfOne) =>
        /\ (FormsOfOne \cap DOMAIN article_titles # {}) =>
              ret_title \in {article_titles[k] : k \in FormsOfOne \cap DOMAIN article_titles}
        /\ (arg_filename = F_1_anything /\ article_titles = (<<"1">> :> T_Intro)) =>
              ret_title = T_Intro

\* C10 witness: 001-x.pdf resolved through an index that stores the title
\* under "01" alone.
C10_Witness ==
    /\ pc = "titled"
    /\ arg_filename = F_001_x
    /\ DOMAIN article_titles = {<<"0", "1">>}
    /\ ret_title = article_titles[<<"0", "1">>]


\* titles the properties name
MyPageTitle == <<"M", "y", " ", "P", "a", "g", "e">>
AnythingTitle == <<"A", "n", "y", "t", "h", "i", "n", "g">>
UnknownTitle == <<"U", "n", "k", "n", "o", "w", "n">>
FilenameTitle == <<"F", "i", "l", "e", "n", "a", "m", "e">>
UnknownPart == <<"u", "n", "k", "n", "o", "w", "n">>
InvalidFilenameRoot == <<"i", "n", "v", "a", "l", "i", "d", "-", "f", "i", "l", "e", "n", "a", "m", "e">>
ReadmeRoot == <<"r", "e", "a", "d", "m", "e">>

\* the prefix of the file name given to the Title Resolver
ArgPrefix == split1(arg_filename, Dash)[1]

\* no key of the TitleIndex is the prefix or, for a numeric prefix, its
\* unpadded, 2-digit or 3-digit form
NoCandidateKey ==
    \A k \in DOMAIN article_titles :
        /\ k # ArgPrefix
        /\ ~(isdigit(ArgPrefix) /\ DigitsValue(k) = DigitsValue(ArgPrefix))

\* the title section 4.2 derives from each name: the part after the first '-'
\* without extension (and variant suffix), '-' and '_' as blanks, words capitalised
StatedFallback ==
    (F_1_a :> <<"A">>) @@ (F_01_b :> <<"B">>) @@ (F_001_x :> <<"X">>)
    @@ (F_2_c :> <<"C">>) @@ (F_10_c :> <<"C">>) @@ (F_hash :> <<"H">>)
    @@ (F_zz_o :> <<"O">>) @@ (F_3_pup :> <<"D">>)
    @@ (F_99_my_page :> MyPageTitle) @@ (F_02_my_page :> MyPageTitle)
    @@ (F_1_anything :> AnythingTitle)
    @@ (F_99_unknown :> UnknownTitle)
    @@ (F_invalid_filename :> FilenameTitle)

OpenedKinds == {"zero_pages", "insert_failed", "merged", "callback_raised"}

\* C13: at most one fragment document is open at any time; a fragment
\* document is open only between its opening and the end of its iteration,
\* so none is open when the next fragment is about to be opened, after the
\* loop, or when merge_pdfs_stream has returned, whatever the exit path.
C13_OneFragmentOpenAtATime ==
    /\ Cardinality(open_docs) <= 1
    /\ open_docs # {} => (pc = "opened" /\ open_docs = {current_file_pdf})
    /\ pc \in {"loop", "save", "cleanup", "done"} => open_docs = {}

\* C13 witness: the call returned after it had opened two fragments, one
\* skipped for having no pages and one whose pages could not be inserted.
C13_Witness ==
    /\ pc = "done"
    /\ Len(outcomes) = 2
    /\ {outcomes[1], outcomes[2]} = {"zero_pages", "insert_failed"}
    /\ open_docs = {}

\* C14: the output path is written at most once per call, by the save that
\* follows the loop over all fragments: nothing is at the output path while
\* fragments are processed, a call that fails before the save leaves it
\* unwritten, and no step changes the directory of the source fragments.
C14_OutputWrittenOnceAfterLoop ==
    /\ [](pc \in {"start", "makedirs", "loop", "opened", "save"} => ~out_file.written)
    /\ []((pc \in {"cleanup", "done"} /\ pending # "True") => ~out_file.written)
    /\ [][/\ out_file' # out_file =>
               (pc = "save" /\ i > Len(files) /\ ~out_file.written /\ out_file'.written)
          /\ listing' = listing
          /\ dir_exists' = dir_exists]_vars

\* C14 witness: the output holds the pages of two merged fragments.
C14_Witness ==
    /\ pc = "done"
    /\ out_file.written
    /\ Len(page_counts) = 2
    /\ out_file.pages = SumPages(page_counts)


(***************************************************************************)
(* Properties of the Directory Walker.                                     *)
(***************************************************************************)
\* the names the configuration reserves
Reserved == {config_names.final, config_names.metadata, config_names.temp}

\* the immediate subdirectories of pdf_dir
Subdirs == {d \in DOMAIN tree : tree[d].isDir}

\* merge_directory returned its list after it had listed pdf_dir
WalkCompleted ==
    wpc = "run_done" /\ run_result.success /\ Len(items) = Cardinality(DOMAIN tree)

\* the invocations that returned True
ReturnedTrue == SelectSeq(invocations, LAMBDA v : v.returned)

\* C15 as stated: merge_directory() invokes the Merge Engine first on the
\* base directory and then exactly once on each immediate subdirectory that
\* is not reserved, whatever the earlier targets returned; the list it
\* returns holds exactly the output paths of the invocations that returned
\* True, in invocation order, and each of them is a file.
C15_EveryTargetOnceAndListed ==
    WalkCompleted =>
        /\ invocations[1].target = BaseDir
        /\ \A k \in 2..Len(invocations) : invocations[k].target # BaseDir
        /\ \A d \in Subdirs \ Reserved :
              Cardinality({k \in 1..Len(invocations) : invocations[k].target = d}) = 1
        /\ run_result.merged_files = [k \in 1..Len(ReturnedTrue) |-> ReturnedTrue[k].output]
        /\ \A k \in 1..Len(run_result.merged_files) :
              run_result.merged_files[k] \in tree[config_names.final].files

\* C16 as stated: the Merge Engine is never invoked on the final-output,
\* metadata or temp directory under the names the configuration gives them,
\* so no merged output is among the fragments of an invocation.
C16_ReservedDirectoriesSkipped ==
    \A k \in 1..Len(invocations) :
        /\ invocations[k].target \notin Reserved
        /\ \A f \in invocations[k].inputs : f[1] # "out"

\* C17: run() always returns a dict and never raises: the dict has
\* 'statistics' in every case, 'success' True with 'merged_files' when the
\* walk went through, 'success' False with 'error' when pdf_dir does not
\* exist; a target whose merge fails never makes run() report failure.
C17_RunAlwaysReports ==
    /\ [](wpc = "run_done" =>
            /\ {"success", "statistics"} \subseteq run_result.keys
            /\ run_result.success =>
                  ("merged_files" \in run_result.keys /\ run_result.merged_files = merged_files)
            /\ ~run_result.success => "error" \in run_result.keys
            /\ ~pdf_dir_exists => ~run_result.success
            /\ invocations # <<>> => run_result.success)
    /\ <>(wpc = "run_done")

\* C17 witness: run() reported success although every invocation on a
\* directory with fragments returned False.
C17_Witness ==
    /\ wpc = "run_done"
    /\ run_result.success
    /\ Len(invocations) >= 2
    /\ \A k \in 1..Len(invocations) :
          invocations[k].inputs # {} /\ ~invocations[k].returned


(***************************************************************************)
(* Properties of the construction of a PDFMerger.                          *)
(***************************************************************************)
\* the configuration file is missing, is no JSON, or lacks rootURL or pdfDir
UnusableConfigFile ==
    \/ config_file.kind \in {"missing", "invalid"}
    \/ ~({"rootURL", "pdfDir"} \subseteq DOMAIN config_file.raw)

\* C18: constructing a PDFMerger on a configuration file that is missing, is
\* not valid JSON or lacks rootURL or pdfDir raises ConfigurationError, and
\* by then no metadata file was read, no directory listed or merged and no
\* output written.
C18_BadConfigAbortsConstruction ==
    (UnusableConfigFile /\ cpc # "ctor") =>
        /\ cpc = "ctor_raised"
        /\ ctor_error = "ConfigurationError"
        /\ \A k \in 1..Len(ctor_log) : ctor_log[k] = "config"
        /\ article_titles = <<>>
        /\ section_structure = NoStructure
        /\ files = <<>>
        /\ invocations = <<>>
        /\ ~out_file.written

\* C18 witness: construction raised on a file without pdfDir although both
\* metadata files were there to be loaded.
C18_Witness ==
    /\ cpc = "ctor_raised"
    /\ config_file.kind = "object"
    /\ DOMAIN config_file.raw = {"rootURL"}
    /\ meta_files.titles_meta = "valid"
    /\ meta_files.structure_meta = "valid"


(***************************************************************************)
(* Properties of ConfigManager.load.                                       *)
(***************************************************************************)
\* the file gives a typed key a value of another type
WrongTypeInFile ==
    \E key \in DOMAIN config_file.raw : config_file.raw[key].t # TYPE_MAPPING[key]

\* the file's values are usable: no empty text, an http(s) URL, a
\* concurrency within its range
UsableValues ==
    \A key \in DOMAIN config_file.raw :
        /\ config_file.raw[key] # StrVal(Empty)
        /\ key = "rootURL" => config_file.raw[key] \in {StrVal(UrlGood)}
        /\ key = "concurrency" => config_file.raw[key] # IntVal(TooManyWorkers)

\* the value section "otherwise" of the claim gives a key: the environment
\* variable when it is set (CONCURRENCY when it is a number), else the
\* file's value, else the default
StatedValue(key) ==
    IF key = "pdfDir" /\ "PDF_DIR" \in DOMAIN environ THEN StrVal(environ["PDF_DIR"])
    ELSE IF key = "rootURL" /\ "ROOT_URL" \in DOMAIN environ THEN StrVal(environ["ROOT_URL"])
    ELSE IF key = "logLevel" /\ "LOG_LEVEL" \in DOMAIN environ THEN StrVal(environ["LOG_LEVEL"])
    ELSE IF key = "concurrency" /\ "CONCURRENCY" \in DOMAIN environ
            /\ environ["CONCURRENCY"] = <<"1", "0">> THEN IntVal(10)
    ELSE IF key \in DOMAIN config_file.raw
         THEN IF config_file.raw[key] = StrVal(DirSlash) THEN StrVal(DirOut)
              ELSE config_file.raw[key]
    ELSE DEFAULT_CONFIG[key]

\* C19 as stated: load() raises ConfigValidationError and returns nothing
\* when the file is missing, is no JSON, lacks rootURL or pdfDir, or gives a
\* typed key a value of the wrong type; on a file with both keys and usable
\* values it returns the file's configuration over the defaults, with
\* PDF_DIR, ROOT_URL, CONCURRENCY and LOG_LEVEL overriding.
C19_LoadValidatesThenMerges ==
    cpc = "loaded" =>
        /\ (\/ config_file.kind \in {"missing", "invalid"}
            \/ "rootURL" \notin DOMAIN config_file.raw
            \/ "pdfDir" \notin DOMAIN config_file.raw
            \/ WrongTypeInFile) =>
               (cm_outcome.raised = "ConfigValidationError" /\ cm_outcome.returned = <<>>)
        /\ (/\ config_file.kind = "object"
            /\ {"rootURL", "pdfDir"} \subseteq DOMAIN config_file.raw
            /\ ~WrongTypeInFile
            /\ UsableValues) =>
               /\ cm_outcome.raised = "None"
               /\ DOMAIN cm_outcome.returned = {"rootURL", "pdfDir", "concurrency", "logLevel"}
               /\ \A key \in DOMAIN cm_outcome.returned :
                     cm_outcome.returned[key] = StatedValue(key)


(***************************************************************************)
(* Properties of the level-2 titles of the hierarchical list.              *)
(***************************************************************************)
\* the merged fragment a resolved page reference key stands for
FragmentOf(key) == page_counts[MergedPos(key)].file

\* the TitleIndex holds an entry under one of the equivalent key forms of the
\* fragment's prefix
IndexHasEntryFor(filename) ==
    LET keys == possible_keys(split_first(name_for_sorting(filename), Dash))
    IN \E k \in 1..Len(keys) : keys[k] \in DOMAIN article_titles

\* C20: in the hierarchical list the level-2 entry of a fragment carries the
\* title the Title Resolver looks up for it: when the TitleIndex holds an
\* entry under any equivalent key form of the fragment (unpadded, 2-digit,
\* 3-digit) the title is the one the flat list would give the fragment, and
\* it is "Page <key>" only when the index has no such entry.
C20_Level2TitleIsResolverTitle ==
    (TocChosen /\ ~NoSectionResolves) =>
        LET keys == AllResolvedKeys(section_structure.sections)
            level2 == SelectSeq(toc, LAMBDA e : e.level = 2)
        IN /\ Len(level2) = Len(keys)
           /\ \A k \in 1..Len(keys) :
                 level2[k].title =
                    IF IndexHasEntryFor(FragmentOf(keys[k]))
                    THEN create_bookmark_title(FragmentOf(keys[k]), article_titles)
                    ELSE TitlePage \o keys[k]


(***************************************************************************)
(* Properties of the order of the candidate keys.                          *)
(***************************************************************************)
\* the value of the first candidate the index holds, None when it holds none
FirstPresent(candidates, titles) ==
    LET hits == {k \in 1..Len(candidates) : candidates[k] \in DOMAIN titles}
    IN IF hits = {} THEN None
       ELSE titles[candidates[CHOOSE k \in hits : \A j \in hits : k <= j]]

Unpadded(prefix) == str(DigitsValue(prefix))

\* the file name has a '-' and a prefix of decimal digits, and the index
\* holds one of the forms of that number
NumericPrefixWithEntry ==
    /\ pc = "titled"
    /\ Contains(arg_filename, <<Dash>>)
    /\ isdigit(ArgPrefix)
    /\ {ArgPrefix, Unpadded(ArgPrefix), zfill(Unpadded(ArgPrefix), 2),
        zfill(Unpadded(ArgPrefix), 3)} \cap DOMAIN article_titles # {}

\* C21 as stated: the candidates of a numeric prefix are tried in the order
\* raw key, unpadded key, 2-digit key, 3-digit key, and the title of the
\* first one the TitleIndex holds is returned.
C21_TwoDigitBeforeThreeDigit ==
    NumericPrefixWithEntry =>
        ret_title = FirstPresent(<<ArgPrefix, Unpadded(ArgPrefix),
                                   zfill(Unpadded(ArgPrefix), 2),
                                   zfill(Unpadded(ArgPrefix), 3)>>, article_titles)

\* C21: the candidates of a numeric prefix are tried in the order raw key,
\* unpadded key, 3-digit key, 2-digit key, and the title of the first one
\* the TitleIndex holds is returned; when the index holds different titles
\* under several forms, the earliest candidate in that order decides.
C21_ThreeDigitBeforeTwoDigit ==
    NumericPrefixWithEntry =>
        ret_title = FirstPresent(<<ArgPrefix, Unpadded(ArgPrefix),
                                   zfill(Unpadded(ArgPrefix), 3),
                                   zfill(Unpadded(ArgPrefix), 2)>>, article_titles)

\* C21 witness: 1-a.pdf resolved through an index that holds different
\* titles under "01" and "001" and none under "1": the title under "001" is
\* returned.
C21_Witness ==
    /\ pc = "titled"
    /\ arg_filename = F_1_a
    /\ DOMAIN article_titles = {<<"0", "1">>, <<"0", "0", "1">>}
    /\ article_titles[<<"0", "1">>] # article_titles[<<"0", "0", "1">>]
    /\ ret_title = article_titles[<<"0", "0", "1">>]


(***************************************************************************)
(* Properties of the sort bucket.                                          *)
(***************************************************************************)
\* the prefix the bucket is decided on
SortPrefix(f) == split1(name_for_sorting(f), Dash)[1]

\* C22: the sort bucket of every sorted file name is decided on the prefix
\* before the first '-' (variant suffix stripped): 0 exactly when the prefix
\* is all decimal digits, else 1 exactly when it has 8 characters that are
\* all hex digits, else 2; an 8-character all-decimal prefix is bucket 0 and
\* a prefix that is not entirely digits is never bucket 0.
C22_BucketByPrefixKind ==
    pc = "selected" =>
        \A k \in 1..Len(files) :
            LET f == files[k]
                bucket == get_sort_key(f, listing[f])[1]
            IN /\ bucket = 0 <=> isdigit(SortPrefix(f))
               /\ bucket = 1 <=> (~isdigit(SortPrefix(f)) /\ is_hash_prefix(SortPrefix(f)))
               /\ bucket = 2 <=> (~isdigit(SortPrefix(f)) /\ ~is_hash_prefix(SortPrefix(f)))


(***************************************************************************)
(* Properties of the error list of a merge.                                *)
(***************************************************************************)
\* the entries of the error list that name a fragment
ErrorsNaming(f) ==
    {n \in 1..Len(stats.errors) : stats.errors[n].kind = "file" /\ stats.errors[n].file = f}

\* C23: every fragment merge_pdfs_stream skips (the file is gone when it is
\* to be opened, it cannot be opened or read, or it has no pages) adds one
\* entry to stats['errors'], and the loop goes on to the next fragment.
C23_EverySkipIsRecorded ==
    \A k \in 1..Len(outcomes) :
        outcomes[k] \notin MergedKinds =>
            /\ Cardinality(ErrorsNaming(files[k])) = 1
            /\ k < i


(***************************************************************************)
(* Properties of the progress callback.                                    *)
(***************************************************************************)
\* the positions, in list order, of the fragments merged so far
RECURSIVE MergedInOrder(_)
MergedInOrder(n) ==
    IF n = 0 THEN <<>>
    ELSE IF outcomes[n] \in MergedKinds THEN Append(MergedInOrder(n - 1), n)
    ELSE MergedInOrder(n - 1)

\* the calls a callback has received are one per merged fragment, each with
\* the fragment's position in the selected list and the length of that list
CallsMatchMergedFragments ==
    has_callback =>
        /\ progress_calls
             = [n \in 1..Cardinality(MergedPositions) |->
                   <<MergedInOrder(Len(outcomes))[n], Len(files)>>]
        /\ \A n \in 1..Len(progress_calls) :
              /\ progress_calls[n][1] <= progress_calls[n][2]
              /\ n > 1 => progress_calls[n - 1][1] < progress_calls[n][1]
        /\ (Len(files) > 0 /\ Cardinality(MergedPositions) = Len(files)) =>
              progress_calls[Len(progress_calls)] = <<Len(files), Len(files)>>

\* a call is made in the step that appended the fragment's pages and closed
\* its document
CallFollowsAppendAndClose ==
    progress_calls' # progress_calls =>
        /\ Len(progress_calls') = Len(progress_calls) + 1
        /\ page_count > 0
        /\ merged_pages' = merged_pages + page_count
        /\ files[i] \notin open_docs'
        /\ current_file_pdf' = None

\* C24: the progress callback is invoked exactly once per merged fragment,
\* after its pages are appended and its document closed, with (processedCount,
\* totalCount): totalCount is the number of selected fragments and
\* processedCount the number of fragments the loop has taken up so far
\* (skipped ones included); skipped or failed fragments cause no call, the
\* first argument strictly increases and never exceeds totalCount, and when
\* all N fragments merge the last call is (N, N).
C24_CallbackOncePerMergedFragment ==
    /\ [](CallsMatchMergedFragments)
    /\ [][CallFollowsAppendAndClose]_vars

\* C24 witness: of two fragments the first was skipped and the second
\* merged, and the callback received the single call (2, 2).
C24_Witness ==
    /\ has_callback
    /\ Len(outcomes) = 2
    /\ outcomes[1] \notin MergedKinds
    /\ outcomes[2] = "merged"
    /\ progress_calls = <<<<2, 2>>>>


(***************************************************************************)
(* run() called repeatedly on one PDFMerger: the statistics.               *)
(***************************************************************************)
\* what the steps of run() leave alone
stats_frame ==
    <<pc, dir_exists, listing, engine_filter, article_titles, section_structure,
      bookmarks_enabled, has_callback, files, i, merged_pages, merged_open, toc,
      page_counts, file_to_index, current_file_pdf, page_count, open_docs, doc_toc,
      progress_calls, out_dir, out_file, pending, result, outcomes, arg_filename,
      ret_title, pdf_dir_exists, config_names, tree, root_files, items, item_pos,
      merged_files, invocations, run_result, cfg_vars>>

\* get_statistics(): the two counters it copies from self.stats
get_statistics(st) ==
    [files_processed |-> st.files_processed, total_pages |-> st.total_pages]

\* a PDFMerger just constructed (self.stats of lines 67-74)
InitStats ==
    /\ pc = "idle"
    /\ dir_exists = FALSE
    /\ listing = <<>>
    /\ engine_filter = "none"
    /\ article_titles = <<>>
    /\ section_structure = NoStructure
    /\ bookmarks_enabled = TRUE
    /\ has_callback = FALSE
    /\ arg_filename = None
    /\ ret_title = None
    /\ LocalsInit
    /\ StatsIdle
    /\ ConfigIdle
    /\ wpc = "stats_ready"
    /\ pdf_dir_exists = TRUE
    /\ config_names = DefaultNames
    /\ tree = <<>>
    /\ root_files = {}
    /\ items = <<>>
    /\ item_pos = 0
    /\ merged_files = <<>>
    /\ invocations = <<>>
    /\ run_result = NoResult

\* line 776: run() starts; self.stats keeps its counters
RunStarts ==
    /\ wpc = "stats_ready"
    /\ runs < MaxRuns
    /\ run_merged' = <<>>
    /\ wpc' = "stats_running"
    /\ UNCHANGED <<stats_frame, stats, run_statistics, runs>>

\* lines 590-592, in a merge_pdfs_stream that merge_directory() called: a
\* fragment was merged
RunMergesFragment ==
    /\ wpc = "stats_running"
    /\ Len(run_merged) < MaxRunFragments
    /\ \E p \in 1..MaxFragmentPages :
          /\ stats' = [stats EXCEPT !.files_processed = @ + 1, !.total_pages = @ + p]
          /\ run_merged' = Append(run_merged, p)
    /\ UNCHANGED <<stats_frame, wpc, run_statistics, runs>>

\* lines 783-804: run() returns a dict with 'statistics': get_statistics()
RunReports ==
    /\ wpc = "stats_running"
    /\ run_statistics' = get_statistics(stats)
    /\ runs' = runs + 1
    /\ wpc' = "stats_ready"
    /\ UNCHANGED <<stats_frame, stats, run_merged>>

NextStats ==
    \/ RunStarts
    \/ RunMergesFragment
    \/ RunReports

SpecStats == InitStats /\ [][NextStats]_vars

RECURSIVE SumSeq(_)
SumSeq(q) == IF q = <<>> THEN 0 ELSE q[1] + SumSeq(Tail(q))

\* C25: the statistics run() reports describe that invocation: files_processed
\* is the number of fragments merged during it and total_pages the sum of
\* their page counts (2 files of 3 pages give 2 and 6), also when run() is
\* called more than once on the same PDFMerger.
C25_StatisticsDescribeTheRun ==
    (runs > 0 /\ wpc = "stats_ready") =>
        /\ run_statistics.files_processed = Len(run_merged)
        /\ run_statistics.total_pages = SumSeq(run_merged)


(***************************************************************************)
(* Properties of the metadata files.                                       *)
(***************************************************************************)
\* the title derived from the file name alone
DerivedTitle(f) ==
    IF Contains(name_for_sorting(f), <<Dash>>)
    THEN fallback_title(split1(name_for_sorting(f), Dash)[2])
    ELSE splitext_root(name_for_sorting(f))

\* a merged one-page fragment and its flat list
OneFragment == <<F_1_a>>
OneFragmentCounts == <<[file |-> F_1_a, pages |-> 1]>>
OneFragmentIndex == (F_1_a :> <<"1">>)
OneFragmentFlat == <<Entry(1, create_bookmark_title(F_1_a, article_titles), 0)>>

\* C26: a missing or malformed articleTitles.json or sectionStructure.json
\* never fails the construction of a PDFMerger nor a merge: with a usable
\* configuration the constructor raises nothing; when no articleTitles.json
\* holds entries that can be read the TitleIndex is empty and every fragment
\* gets the title derived from its name; when no sectionStructure.json can
\* be read there is no SectionStructure and the flat list is chosen.
C26_MetadataNeverFatal ==
    ~UnusableConfigFile =>
        /\ ctor_error = "None"
        /\ cpc # "ctor_raised"
        /\ cpc = "constructed" =>
              /\ article_titles \in {<<>>, TitlesInMeta, TitlesInFallback}
              /\ (meta_files.titles_meta # "valid" /\ meta_files.titles_fallback # "valid") =>
                    /\ article_titles = <<>>
                    /\ \A f \in TitleNames :
                          create_bookmark_title(f, article_titles) = DerivedTitle(f)
              /\ (meta_files.structure_meta # "valid"
                    /\ meta_files.structure_fallback # "valid") =>
                    /\ section_structure = NoStructure
                    /\ choose_toc(section_structure, OneFragmentFlat, OneFragment,
                                  OneFragmentCounts, OneFragmentIndex, article_titles)
                          = OneFragmentFlat

\* C26 witness: a PDFMerger was constructed although the articleTitles.json
\* and the sectionStructure.json of the metadata directory are no JSON; it has
\* the empty TitleIndex and no SectionStructure.
C26_Witness ==
    /\ cpc = "constructed"
    /\ ctor_error = "None"
    /\ meta_files.titles_meta = "malformed"
    /\ meta_files.structure_meta = "malformed"
    /\ meta_files.structure_fallback = "absent"
    /\ article_titles = <<>>
    /\ section_structure = NoStructure


(***************************************************************************)
(* Properties of the fragment handle.                                      *)
(***************************************************************************)
\* the per-fragment error handler (lines 603-614) runs in this step
HandlerRuns ==
    /\ Len(outcomes') = Len(outcomes) + 1
    /\ outcomes'[Len(outcomes')] \in {"open_failed", "insert_failed", "callback_raised"}

\* the finally block (lines 650-658) runs in this step
FinallyRuns == pc = "cleanup" /\ pc' = "done"

\* C27: no fragment document is closed or used after it was closed: once a
\* zero-page fragment is closed, with current_file_pdf still referring to
\* it, neither the error handler of a later fragment nor the final cleanup
\* runs its test or its close on that document.
C27_ClosedDocumentNeverUsedAgain ==
    [][StaleHandle => ~(HandlerRuns \/ FinallyRuns)]_vars


(***************************************************************************)
(* Properties of the coverage of the bookmark list.                        *)
(***************************************************************************)
\* C28: whenever a bookmark list is given to the output, every merged
\* fragment is the target of at least one of its entries, under a
\* SectionStructure as without one: no merged fragment is left without a
\* bookmark.
C28_EveryMergedFragmentHasABookmark ==
    doc_toc # None =>
        \A k \in 1..Len(page_counts) :
            \E n \in 1..Len(doc_toc) : doc_toc[n].page = StartPage(k)


(***************************************************************************)
(* Properties of the output paths of a run.                                *)
(***************************************************************************)
\* C29: within one merge_directory() run no two calls of merge_pdfs_stream
\* get the same output path, whatever the subdirectories are called (one may
\* bear the domain label of the root URL): no output of the run is
\* overwritten by a later target and the returned list has no duplicate.
C29_OutputPathsDistinct ==
    /\ \A a, b \in 1..Len(invocations) :
          a # b => invocations[a].output # invocations[b].output
    /\ \A a, b \in 1..Len(merged_files) : a # b => merged_files[a] # merged_files[b]


(***************************************************************************)
(* Properties of a load() that fails.                                      *)
(***************************************************************************)
\* get() with no key, and to_dict(), on a validated manager (lines 319-323
\* and 400-403); save() writes the same dict (lines 411-418)
Exposed == IF cm_validated THEN cm_config ELSE <<>>

\* this step is a call of load() that raises
LoadRaises == Loading /\ cm_outcome'.raised = "ConfigValidationError"

\* C30: a load() that raises ConfigValidationError leaves the stored
\* configuration and the validated flag as they were before the call, so
\* what get(), to_dict() and save() hand out is never a configuration that
\* failed validation.
C30_FailedLoadLeavesStateUnchanged ==
    /\ [][LoadRaises => (cm_config' = cm_config /\ cm_validated' = cm_validated)]_vars
    /\ [](cm_validated => validate_config(Exposed) = "None")

====
